---- MODULE Spec2Model ----
(***************************************************************************)
(* Model of the deep-research comparison matrix builder                    *)
(* (skills/deep-research/scripts/lib/matrix.py): match_topics with its two *)
(* passes and the conversion to MatchedTopic records; build_matrix, which  *)
(* filters the results and computes citation overlap, stats and hints;     *)
(* extract_topics, _extract_urls, _compute_citation_overlap and to_dict.   *)
(*                                                                         *)
(* Representation.                                                         *)
(*  - A normalized heading is the sequence of its words (the heading       *)
(*    string is the words joined by single blanks); two headings are the   *)
(*    same string iff the sequences are equal; a.lower().split() is the    *)
(*    set of the sequence's elements.                                      *)
(*  - A body keyword is a natural number whose numeric order is the        *)
(*    alphabetical order of the keyword.                                   *)
(*  - A similarity score is the exact fraction <<num, den>>.               *)
(*  - A Python dict keyed by provider is a sequence indexed by the         *)
(*    provider's position in list(provider_topics.keys()); a cluster's     *)
(*    slot holds the index of the Topic in that provider's list, 0 being   *)
(*    None.                                                                *)
(*  - A string of a citation (a URL with or without surrounding blanks) is *)
(*    the sequence of its characters, each a string of length one: " " is  *)
(*    a blank, "a" and "b" are the letters.  The empty string is <<>>.     *)
(*  - An ordered dict is the sequence of its <<key, value>> items.         *)
(*  - A report is the sequence of its lines (joined by newlines); a line   *)
(*    is the number of '#' it starts with and the number of words that     *)
(*    follow them after a blank: no '#' and no word is an empty line, '#'  *)
(*    and no word is a line of nothing but '#'.                            *)
(***************************************************************************)
EXTENDS Integers, Sequences, FiniteSets, TLC

VARIABLES
    results,          \* build_matrix argument: list of ProviderResult
    pc,               \* position in build_matrix / match_topics
    bm_providers,     \* build_matrix: providers (names of the successful results)
    pt_keys,          \* list(provider_topics.keys())
    pt,               \* provider_topics values, by position in pt_keys
    used,             \* match_topics: used[k] = assigned indices of provider k
    clusters,         \* match_topics: clusters
    ap,               \* Pass 1: position of anchor_provider in pt_keys
    ai,               \* Pass 1: anchor_idx
    op,               \* Pass 1: position of other_provider in pt_keys
    cur,              \* Pass 1: cluster under construction
    i2,               \* Pass 2: index i of cluster_a
    matched,          \* match_topics return value
    stats,            \* build_matrix: stats
    unmatched_hints,  \* build_matrix: unmatched_hints
    citation_overlap, \* result of _compute_citation_overlap
    citations,        \* _extract_urls argument: list of citation entries
    urls,             \* _extract_urls return value
    report,           \* extract_topics argument: the report, line by line
    extracted,        \* extract_topics return value
    call,             \* the caller: number of the build_matrix call under way
    first_in,         \* the caller: argument of its first build_matrix call
    first_out,        \* the caller: what its first build_matrix call returned
    sim_in,           \* arguments of a call of a similarity function
    sim_out,          \* what the call returned, and the call with a and b swapped
    bf_urls,          \* batch-fetch: sys.argv[1:]
    bf_pending,       \* batch-fetch: the submitted fetches no worker has taken
    bf_running,       \* batch-fetch: the fetches under way in a worker thread
    bf_fetched,       \* batch-fetch: what fetch_url returned, by argument
    bf_results,       \* batch-fetch: results, in the order of completion
    bf_output,        \* batch-fetch: the "results" list printed
    vc_depth,         \* validate_citations: depth
    vc_results,       \* validate_citations: results, citations changed in place
    vc_ri,            \* validate_citations: position in results
    vc_ci,            \* validate_citations: position in the result's citations
    vc_requests,      \* validate_citations: the requests sent so far
    rq_retries,       \* http.request: retries
    rq_attempt,       \* http.request: attempt, the loop variable
    rq_events,        \* http.request: the attempts made and the sleeps slept
    rq_last_error,    \* http.request: last_error
    rq_result,        \* http.request: what the call returned or raised
    pl_attempt,       \* _poll_response: attempt, the loop variable
    pl_seen,          \* _poll_response: the statuses polled so far
    pl_result         \* _poll_response: what the call returned or raised

\* the variables of the similarity functions
simVars == <<sim_in, sim_out>>

\* the variables of batch-fetch
fetchVars ==
    <<bf_urls, bf_pending, bf_running, bf_fetched, bf_results, bf_output>>

\* the variables of validate_citations
validateVars == <<vc_depth, vc_results, vc_ri, vc_ci, vc_requests>>

\* the variables of http.request
requestVars ==
    <<rq_retries, rq_attempt, rq_events, rq_last_error, rq_result>>

\* the variables of openai_dr._poll_response
pollVars == <<pl_attempt, pl_seen, pl_result>>

\* the variables of the programs other than the matrix builder
otherPrograms == <<simVars, fetchVars, validateVars, requestVars, pollVars>>

\* what a call of a similarity function leaves alone beside the matrix builder
besideSim == <<fetchVars, validateVars, requestVars, pollVars>>

\* what batch-fetch leaves alone beside the matrix builder
besideFetch == <<simVars, validateVars, requestVars, pollVars>>

\* what validate_citations leaves alone beside the matrix builder
besideValidate == <<simVars, fetchVars, requestVars, pollVars>>

\* what http.request leaves alone beside the matrix builder
besideRequest == <<simVars, fetchVars, validateVars, pollVars>>

\* what _poll_response leaves alone beside the matrix builder
besidePoll == <<simVars, fetchVars, validateVars, requestVars>>

vars == <<results, pc, bm_providers, pt_keys, pt, used, clusters, ap, ai, op,
          cur, i2, matched, stats, unmatched_hints, citation_overlap,
          citations, urls, report, extracted, call, first_in, first_out,
          otherPrograms>>

\* the values of the variables of the other programs while they do not run
SimIdle ==
    /\ sim_in = <<>>
    /\ sim_out = <<>>

FetchIdle ==
    /\ bf_urls = <<>>
    /\ bf_pending = {}
    /\ bf_running = {}
    /\ bf_fetched = <<>>
    /\ bf_results = <<>>
    /\ bf_output = <<>>

ValidateIdle ==
    /\ vc_depth = 0
    /\ vc_results = <<>>
    /\ vc_ri = 1
    /\ vc_ci = 1
    /\ vc_requests = <<>>

RequestIdle ==
    /\ rq_retries = 0
    /\ rq_attempt = 0
    /\ rq_events = <<>>
    /\ rq_last_error = <<>>
    /\ rq_result = <<>>

PollIdle ==
    /\ pl_attempt = 0
    /\ pl_seen = {}
    /\ pl_result = <<>>

OthersIdle ==
    /\ SimIdle
    /\ FetchIdle
    /\ ValidateIdle
    /\ RequestIdle
    /\ PollIdle

-----------------------------------------------------------------------------
(* Bounds of the model *)

\* largest number of Topics in an input, all providers together
MaxTotal == 3

\* largest number of citation entries in an input, all results together
MaxCitations == 4

\* largest number of lines of a report
MaxLines == 3

\* number of keywords the arguments of _jaccard_similarity_sets are made of
MaxKeywords == 3

\* largest number of characters of an argument of _jaccard_similarity
MaxChars == 3

-----------------------------------------------------------------------------
(* Program constants *)

DETAILED_WORD_THRESHOLD == 100
\* 0.60 and 0.30 as exact fractions
FUZZY_MATCH_THRESHOLD == <<60, 100>>
\* a content threshold of 0.50
ContentThresholdHalf == <<50, 100>>
CONTENT_MATCH_THRESHOLD == <<30, 100>>
\* sorted(topic_obj.body_keywords)[:20]
TOP_KEYWORDS == 20

-----------------------------------------------------------------------------
(* Generic helpers *)

Range(s) == {s[k] : k \in 1..Len(s)}

Min(a, b) == IF a <= b THEN a ELSE b

RECURSIVE SumSeq(_)
SumSeq(s) == IF s = <<>> THEN 0 ELSE s[1] + SumSeq(Tail(s))

\* the number of positions of s that satisfy Test
CountIf(s, Test(_)) == Cardinality({k \in 1..Len(s) : Test(s[k])})

\* exact comparison of fractions with positive denominators
FracGE(x, y) == x[1] * y[2] >= y[1] * x[2]
FracGT(x, y) == x[1] * y[2] > y[1] * x[2]
FracEQ(x, y) == x[1] * y[2] = y[1] * x[2]
ONE == <<1, 1>>
ZERO == <<0, 1>>

-----------------------------------------------------------------------------
(* Topic records and the Topics the inputs are drawn from *)

\* Coverage with 'detailed' only above the threshold
CoverageStrict(word_count) ==
    IF word_count > DETAILED_WORD_THRESHOLD THEN "detailed" ELSE "mentioned"

\* extract_topics: coverage of a section from its body word count
Coverage(word_count) ==
    IF word_count >= DETAILED_WORD_THRESHOLD THEN "detailed" ELSE "mentioned"

\* Topic(heading, word_count, coverage, body_keywords) as extract_topics builds it
Topic(heading, word_count, body_keywords) ==
    [heading |-> heading, word_count |-> word_count,
     coverage |-> Coverage(word_count), body_keywords |-> body_keywords]

hA == <<"apt", "group", "connections", "overview">>
hB == <<"apt", "group", "connections", "analysis">>
hC == <<"apt", "group", "connections">>
hD == <<"company", "overview">>
hE == <<"overview", "company">>
hF == <<"company", "background">>

K1 == 1..6
K2 == 4..10
K3 == 1..3

\* heading similarities: hA-hB 3/5, hA-hC 3/4, hB-hC 3/4, hD-hE 1 (different
\* strings), hD-hF 1/3; keyword similarities: K1-K2 3/10, K1-K3 1/2, K2-K3 0
TopicPool ==
    << Topic(hA, 100, K1),
       Topic(hB, 99, K2),
       Topic(hC, 150, {}),
       Topic(hD, 20, K1),
       Topic(hE, 100, {}),
       Topic(hF, 0, K3),
       Topic(hD, 150, K3) >>

\* the Topics that the inputs of build_matrix are drawn from
BuildPool == {TopicPool[1], TopicPool[4], TopicPool[5], TopicPool[7]}

\* the providers of the deep-research skill, in the order of the input
ProviderNames == <<"openai", "perplexity", "gemini">>

\* the ways to hand out k Topics to n providers, in provider order
Splits(k, n) ==
    {g \in [1..k -> 1..n] : \A a, b \in 1..k : a <= b => g[a] <= g[b]}

RECURSIVE SelectSeq2(_, _, _)
\* the subsequence of s at the positions k where g[k] = v
SelectSeq2(s, g, v) ==
    IF s = <<>> THEN <<>>
    ELSE LET k == Len(s)
             front == SelectSeq2(SubSeq(s, 1, k - 1), g, v)
         IN  IF g[k] = v THEN Append(front, s[k]) ELSE front

\* the n Topic lists that hand out the Topics of s as g says
TopicLists(n, s, g) == [p \in 1..n |-> SelectSeq2(s, g, p)]

-----------------------------------------------------------------------------
(* Similarity *)

\* JaccardSets without the case of two empty sets
JaccardSetsOneCase(a, b) ==
    IF a = {} \/ b = {} THEN ZERO
    ELSE <<Cardinality(a \cap b), Cardinality(a \cup b)>>

\* _jaccard_similarity_sets(a, b)
JaccardSets(a, b) ==
    IF a = {} /\ b = {} THEN ONE
    ELSE IF a = {} \/ b = {} THEN ZERO
    ELSE <<Cardinality(a \cap b), Cardinality(a \cup b)>>

\* _jaccard_similarity(a, b) on two heading strings: set(a.lower().split())
JaccardHeadings(a, b) ==
    LET words_a == Range(a)
        words_b == Range(b)
    IN  IF words_a = {} /\ words_b = {} THEN ONE
        ELSE IF words_a = {} \/ words_b = {} THEN ZERO
        ELSE <<Cardinality(words_a \cap words_b), Cardinality(words_a \cup words_b)>>

\* BeatsBest with best_score starting at the threshold itself
BeatsBestStrict(score, best, threshold) ==
    IF best.idx = 0 THEN FracGT(score, threshold) ELSE FracGT(score, best.score)

\* score > best_score, where best_score is either the initial value
\* threshold - 1e-9 (best_idx is None, written 0) or the score of best_idx.
\* For a fraction n/d with d far below 1e9, n/d > t - 1e-9 iff n/d >= t.
BeatsBest(score, best, threshold) ==
    IF best.idx = 0 THEN FracGE(score, threshold) ELSE FracGT(score, best.score)

NoMatch == [idx |-> 0, score |-> ZERO]

RECURSIVE BestMatchLoop(_, _, _, _, _)
\* the for loop of _best_match from index idx on; indices are 1-based
BestMatchLoop(needle, candidates, usedset, idx, best) ==
    IF idx > Len(candidates) THEN
        IF best.idx # 0 /\ FracGE(best.score, FUZZY_MATCH_THRESHOLD)
        THEN best ELSE NoMatch
    ELSE IF idx \in usedset THEN
        BestMatchLoop(needle, candidates, usedset, idx + 1, best)
    ELSE IF needle.heading = candidates[idx].heading THEN
        [idx |-> idx, score |-> ONE]
    ELSE
        LET score == JaccardHeadings(needle.heading, candidates[idx].heading)
        IN  IF BeatsBest(score, best, FUZZY_MATCH_THRESHOLD)
            THEN BestMatchLoop(needle, candidates, usedset, idx + 1,
                               [idx |-> idx, score |-> score])
            ELSE BestMatchLoop(needle, candidates, usedset, idx + 1, best)

\* the score with which _best_match accepts candidate for needle
AcceptScore(needle, candidate) ==
    IF needle.heading = candidate.heading THEN ONE
    ELSE JaccardHeadings(needle.heading, candidate.heading)

\* BestMatch that does not skip the candidates already assigned
BestMatchIgnoreUsed(needle, candidates, usedset) ==
    BestMatchLoop(needle, candidates, {}, 1, NoMatch)

\* _best_match(needle, candidates, used): [idx, score], idx = 0 for None
BestMatch(needle, candidates, usedset) ==
    BestMatchLoop(needle, candidates, usedset, 1, NoMatch)

-----------------------------------------------------------------------------
(* match_topics: set-up and Pass 1 *)

\* the variables of build_matrix, which match_topics leaves alone
buildVars == <<results, bm_providers, stats, unmatched_hints, citation_overlap>>

\* the variables of the other functions and of the caller
outsideVars == <<citations, urls, report, extracted, call, first_in, first_out,
                 otherPrograms>>

NoCluster == [topics |-> <<>>, match_method |-> "unmatched"]
\* NoStats counting one unique topic
NoStatsOneUnique == [total_topics |-> 1, consensus |-> 0, majority |-> 0, unique |-> 1]
NoStats == [total_topics |-> 0, consensus |-> 0, majority |-> 0, unique |-> 0]

NumProviders == Len(pt_keys)

RECURSIVE NextAnchor(_, _)
\* the next (anchor_provider, anchor_idx) at or after (p, idx) that the two
\* for loops of Pass 1 do not skip; <<0, 0>> when the loops are over
NextAnchor(p, idx) ==
    IF p > NumProviders THEN <<0, 0>>
    ELSE IF idx > Len(pt[p]) THEN NextAnchor(p + 1, 1)
    ELSE IF idx \in used[p] THEN NextAnchor(p, idx + 1)
    ELSE <<p, idx>>

\* the next other_provider at or after position p: skips the anchor_provider
NextOther(p, anchor) == IF p = anchor THEN p + 1 ELSE p

\* the upgrade of cluster_match_method after an accepted match
UpgradeMethod(method, score) ==
    IF FracEQ(score, ONE)
    THEN (IF method = "unmatched" THEN "exact" ELSE method)
    ELSE (IF method = "unmatched" THEN "heading-fuzzy" ELSE method)

\* MatchStart with clusters kept from one call to the next
MatchStartKeepsClusters ==
    /\ pc = "match_topics"
    /\ IF pt_keys = <<>>
       THEN /\ matched' = <<>>
            /\ pc' = "matched"
            /\ UNCHANGED <<used, clusters, ap, ai>>
       ELSE /\ used' = [k \in 1..NumProviders |-> {}]
            /\ ap' = 1
            /\ ai' = 1
            /\ pc' = "pass1"
            /\ UNCHANGED <<matched, clusters>>
    /\ UNCHANGED <<pt_keys, pt, op, cur, i2>>
    /\ UNCHANGED buildVars
    /\ UNCHANGED outsideVars

\* providers = list(provider_topics.keys()); return [] when there is none
MatchStart ==
    /\ pc = "match_topics"
    /\ IF pt_keys = <<>>
       THEN /\ matched' = <<>>
            /\ pc' = "matched"
            /\ UNCHANGED <<used, clusters, ap, ai>>
       ELSE /\ used' = [k \in 1..NumProviders |-> {}]
            /\ clusters' = <<>>
            /\ ap' = 1
            /\ ai' = 1
            /\ pc' = "pass1"
            /\ UNCHANGED matched
    /\ UNCHANGED <<pt_keys, pt, op, cur, i2>>
    /\ UNCHANGED buildVars
    /\ UNCHANGED outsideVars

\* Pass 1: the next unassigned Topic opens a cluster as its anchor
AnchorStart ==
    /\ pc = "pass1"
    /\ NextAnchor(ap, ai) # <<0, 0>>
    /\ LET pos == NextAnchor(ap, ai)
       IN  /\ ap' = pos[1]
           /\ ai' = pos[2]
           /\ cur' = [topics |-> [k \in 1..NumProviders |->
                                     IF k = pos[1] THEN pos[2] ELSE 0],
                      match_method |-> "unmatched"]
           /\ used' = [used EXCEPT ![pos[1]] = @ \cup {pos[2]}]
           /\ op' = NextOther(1, pos[1])
    /\ pc' = "search"
    /\ UNCHANGED <<pt_keys, pt, clusters, i2, matched>>
    /\ UNCHANGED buildVars
    /\ UNCHANGED outsideVars

\* Pass 1: one iteration of "for other_provider in providers"
SearchOther ==
    /\ pc = "search"
    /\ op <= NumProviders
    /\ LET result == BestMatch(pt[ap][ai], pt[op], used[op])
       IN  IF result.idx # 0
           THEN /\ cur' = [topics |-> [cur.topics EXCEPT ![op] = result.idx],
                           match_method |->
                               UpgradeMethod(cur.match_method, result.score)]
                /\ used' = [used EXCEPT ![op] = @ \cup {result.idx}]
           ELSE UNCHANGED <<cur, used>>
    /\ op' = NextOther(op + 1, ap)
    /\ UNCHANGED <<pc, pt_keys, pt, clusters, ap, ai, i2, matched>>
    /\ UNCHANGED buildVars
    /\ UNCHANGED outsideVars

\* Pass 1: clusters.append(...) once every other provider was searched
CloseCluster ==
    /\ pc = "search"
    /\ op > NumProviders
    /\ clusters' = Append(clusters, [topics |-> cur.topics,
                                     match_method |-> cur.match_method,
                                     merged_into |-> 0])
    /\ ai' = ai + 1
    /\ pc' = "pass1"
    /\ UNCHANGED <<pt_keys, pt, used, ap, op, cur, i2, matched>>
    /\ UNCHANGED buildVars
    /\ UNCHANGED outsideVars

\* Pass 1 is over: no Topic is left unassigned
Pass1Done ==
    /\ pc = "pass1"
    /\ NextAnchor(ap, ai) = <<0, 0>>
    /\ pc' = "pass2"
    /\ i2' = 1
    /\ UNCHANGED <<pt_keys, pt, used, clusters, ap, ai, op, cur, matched>>
    /\ UNCHANGED buildVars
    /\ UNCHANGED outsideVars

-----------------------------------------------------------------------------
(* match_topics: Pass 2 *)

\* next(p for p, t in cluster_topics.items() if t is not None)
AnchorOf(cluster) ==
    CHOOSE k \in 1..Len(cluster.topics) :
        /\ cluster.topics[k] # 0
        /\ \A m \in 1..(k - 1) : cluster.topics[m] = 0

\* the Topic a cluster holds for the provider at position k
TopicAt(cluster, k) == pt[k][cluster.topics[k]]

\* the Topic of the cluster's first populated slot
AnchorTopic(cluster) == TopicAt(cluster, AnchorOf(cluster))

\* BestPartnerLoop that looks at the next cluster of the list only
BestPartnerLoopAdjacent(i, j, best) ==
    IF i + 1 > Len(clusters) THEN best
    ELSE IF clusters[i + 1].match_method # "unmatched" THEN best
    ELSE IF clusters[i + 1].merged_into # 0 THEN best
    ELSE IF AnchorOf(clusters[i + 1]) = AnchorOf(clusters[i]) THEN best
    ELSE IF AnchorTopic(clusters[i + 1]).body_keywords = {} THEN best
    ELSE LET sim == JaccardSets(AnchorTopic(clusters[i]).body_keywords,
                                AnchorTopic(clusters[i + 1]).body_keywords)
         IN  IF BeatsBest(sim, best, CONTENT_MATCH_THRESHOLD)
             THEN [idx |-> i + 1, score |-> sim]
             ELSE best

RECURSIVE BestPartnerLoop(_, _, _)
\* the inner loop "for j, cluster_b in enumerate(clusters)" from j on
BestPartnerLoop(i, j, best) ==
    IF j > Len(clusters) THEN best
    ELSE IF j <= i THEN BestPartnerLoop(i, j + 1, best)
    ELSE IF clusters[j].match_method # "unmatched" THEN BestPartnerLoop(i, j + 1, best)
    ELSE IF clusters[j].merged_into # 0 THEN BestPartnerLoop(i, j + 1, best)
    ELSE IF AnchorOf(clusters[j]) = AnchorOf(clusters[i]) THEN BestPartnerLoop(i, j + 1, best)
    ELSE IF AnchorTopic(clusters[j]).body_keywords = {} THEN BestPartnerLoop(i, j + 1, best)
    ELSE LET sim == JaccardSets(AnchorTopic(clusters[i]).body_keywords,
                                AnchorTopic(clusters[j]).body_keywords)
         IN  IF BeatsBest(sim, best, CONTENT_MATCH_THRESHOLD)
             THEN BestPartnerLoop(i, j + 1, [idx |-> j, score |-> sim])
             ELSE BestPartnerLoop(i, j + 1, best)

\* BestPartner without the skip of a cluster_a that is matched or absorbed
BestPartnerNoSkip(i) ==
    IF AnchorTopic(clusters[i]).body_keywords = {} THEN 0
    ELSE BestPartnerLoop(i, 1, NoMatch).idx

\* best_j for cluster i, 0 for None; 0 as well when cluster i is skipped
BestPartner(i) ==
    IF clusters[i].match_method # "unmatched" THEN 0
    ELSE IF clusters[i].merged_into # 0 THEN 0
    ELSE IF AnchorTopic(clusters[i]).body_keywords = {} THEN 0
    ELSE BestPartnerLoop(i, 1, NoMatch).idx

\* MergeTopics without the transfer of the partner's slots
MergeTopicsNoTransfer(topics_a, topics_b) == topics_a

\* cluster_topics_a after taking over the populated slots of cluster_topics_b
MergeTopics(topics_a, topics_b) ==
    [k \in 1..Len(topics_a) |->
        IF topics_b[k] # 0 /\ topics_a[k] = 0 THEN topics_b[k] ELSE topics_a[k]]

\* Pass 2: one iteration of "for i, cluster_a in enumerate(clusters)"
Pass2Step ==
    /\ pc = "pass2"
    /\ i2 <= Len(clusters)
    /\ LET best_j == BestPartner(i2)
       IN  IF best_j # 0
           THEN clusters' =
                  [clusters EXCEPT
                     ![i2] = [topics |-> MergeTopics(clusters[i2].topics,
                                                     clusters[best_j].topics),
                              match_method |-> "content-fuzzy",
                              merged_into |-> clusters[i2].merged_into],
                     ![best_j] = [@ EXCEPT !.merged_into = i2]]
           ELSE UNCHANGED clusters
    /\ i2' = i2 + 1
    /\ UNCHANGED <<pc, pt_keys, pt, used, ap, ai, op, cur, matched>>
    /\ UNCHANGED buildVars
    /\ UNCHANGED outsideVars

-----------------------------------------------------------------------------
(* match_topics: conversion of the clusters to MatchedTopic records *)

\* len(heading) of a heading string: its words joined by single blanks
HeadingLen(h) ==
    IF h = <<>> THEN 0
    ELSE SumSeq([k \in 1..Len(h) |-> Len(h[k])]) + (Len(h) - 1)

\* Canonical keeping the last of the longest headings instead of the first
CanonicalLastLongest(cluster) ==
    LET present == {k \in 1..Len(cluster.topics) : cluster.topics[k] # 0}
        last_max == CHOOSE k \in present : \A m \in present :
                       \/ HeadingLen(TopicAt(cluster, k).heading)
                            > HeadingLen(TopicAt(cluster, m).heading)
                       \/ /\ HeadingLen(TopicAt(cluster, k).heading)
                               = HeadingLen(TopicAt(cluster, m).heading)
                          /\ k >= m
    IN  TopicAt(cluster, last_max).heading

\* max((t.heading for _, t in present_topics), key=len): the first longest
Canonical(cluster) ==
    LET present == {k \in 1..Len(cluster.topics) : cluster.topics[k] # 0}
        first_max == CHOOSE k \in present : \A m \in present :
                        \/ HeadingLen(TopicAt(cluster, k).heading)
                             > HeadingLen(TopicAt(cluster, m).heading)
                        \/ /\ HeadingLen(TopicAt(cluster, k).heading)
                                = HeadingLen(TopicAt(cluster, m).heading)
                           /\ k <= m
    IN  TopicAt(cluster, first_max).heading

\* coverage: one <<provider, level>> entry per provider, in providers order
CoverageOf(cluster) ==
    [k \in 1..NumProviders |->
        <<pt_keys[k],
          IF cluster.topics[k] # 0 THEN TopicAt(cluster, k).coverage ELSE "absent">>]

PresentCount(coverage) == CountIf(coverage, LAMBDA e : e[2] # "absent")

\* next(p for p, v in coverage.items() if v != "absent")
FirstPresent(coverage) ==
    LET k == CHOOSE k \in 1..Len(coverage) :
                /\ coverage[k][2] # "absent"
                /\ \A m \in 1..(k - 1) : coverage[m][2] = "absent"
    IN  coverage[k][1]

\* Agreement with the test for 'majority' made before that for 'consensus'
AgreementMajorityFirst(coverage) ==
    IF NumProviders = 1 THEN <<"unique", pt_keys[1]>>
    ELSE IF PresentCount(coverage) >= 2 THEN <<"majority">>
    ELSE IF PresentCount(coverage) = NumProviders THEN <<"consensus">>
    ELSE <<"unique", FirstPresent(coverage)>>

\* agreement_level; f"unique-{p}" is written <<"unique", p>>
Agreement(coverage) ==
    IF NumProviders = 1 THEN <<"unique", pt_keys[1]>>
    ELSE IF PresentCount(coverage) = NumProviders THEN <<"consensus">>
    ELSE IF PresentCount(coverage) >= 2 THEN <<"majority">>
    ELSE <<"unique", FirstPresent(coverage)>>

\* MatchedTopic(...) of one surviving cluster
ToMatchedTopic(cluster) ==
    [canonical_name |-> Canonical(cluster),
     coverage |-> CoverageOf(cluster),
     agreement_level |-> Agreement(CoverageOf(cluster)),
     match_method |-> cluster.match_method]

\* the clusters that are not skipped for having "merged_into"
Surviving == SelectSeq(clusters, LAMBDA c : c.merged_into = 0)

\* the final loop of match_topics and its return
Convert ==
    /\ pc = "pass2"
    /\ i2 > Len(clusters)
    /\ matched' = [k \in 1..Len(Surviving) |-> ToMatchedTopic(Surviving[k])]
    /\ pc' = "matched"
    /\ UNCHANGED <<pt_keys, pt, used, clusters, ap, ai, op, cur, i2>>
    /\ UNCHANGED buildVars
    /\ UNCHANGED outsideVars

-----------------------------------------------------------------------------
(* build_matrix *)

\* the variables of match_topics that build_matrix does not touch
matchLocals == <<used, clusters, ap, ai, op, cur, i2>>

\* Successful without the test of r.success
SuccessfulUnfiltered == results

\* successful = [r for r in results if r.success]
Successful == SelectSeq(results, LAMBDA r : r.success)

RECURSIVE DictKeysNewestFirst(_)
\* DictKeys with each new name put in front of the names already there
DictKeysNewestFirst(rs) ==
    IF rs = <<>> THEN <<>>
    ELSE LET front == DictKeysNewestFirst(SubSeq(rs, 1, Len(rs) - 1))
             name == rs[Len(rs)].provider
         IN  IF name \in Range(front) THEN front ELSE <<name>> \o front

RECURSIVE DictKeys(_)
\* the keys of the dict filled by "provider_topics[r.provider] = ..." over rs:
\* each name once, at the place of its first insertion
DictKeys(rs) ==
    IF rs = <<>> THEN <<>>
    ELSE LET front == DictKeys(SubSeq(rs, 1, Len(rs) - 1))
             name == rs[Len(rs)].provider
         IN  IF name \in Range(front) THEN front ELSE Append(front, name)

\* the value the dict holds for name: the one of the last insertion
DictValue(rs, name) ==
    LET last == CHOOSE k \in 1..Len(rs) :
                   /\ rs[k].provider = name
                   /\ \A m \in (k + 1)..Len(rs) : rs[m].provider # name
    IN  rs[last].topics

RECURSIVE SortedSeq(_)
\* sorted(set) of a set of keywords
SortedSeq(set) ==
    IF set = {} THEN <<>>
    ELSE LET least == CHOOSE x \in set : \A y \in set : x <= y
         IN  <<least>> \o SortedSeq(set \ {least})

\* sorted(topic_obj.body_keywords)[:20]
TopKeywords(body_keywords) ==
    SubSeq(SortedSeq(body_keywords), 1, Min(TOP_KEYWORDS, Cardinality(body_keywords)))

\* position in pt_keys of a provider name
KeyPos(name) == CHOOSE k \in 1..NumProviders : pt_keys[k] = name

\* the hint of one unmatched MatchedTopic t, <<>> when it is skipped for
\* having no present provider; else the one-element list of the hint
HintOf(t) ==
    IF PresentCount(t.coverage) = 0 THEN <<>>
    ELSE LET owning_provider == FirstPresent(t.coverage)
             topics_list == pt[KeyPos(owning_provider)]
             hits == {k \in 1..Len(topics_list) :
                         topics_list[k].heading = t.canonical_name}
             keywords ==
                 IF hits = {} THEN <<>>
                 ELSE LET first == CHOOSE k \in hits : \A m \in hits : k <= m
                      IN  TopKeywords(topics_list[first].body_keywords)
         IN  << [provider |-> owning_provider,
                 heading |-> t.canonical_name,
                 top_keywords |-> keywords] >>

RECURSIVE HintsOfSkipContentOnly(_)
\* HintsOf that passes over the 'content-fuzzy' clusters only
HintsOfSkipContentOnly(ms) ==
    IF ms = <<>> THEN <<>>
    ELSE (IF ms[1].match_method = "content-fuzzy" THEN <<>> ELSE HintOf(ms[1]))
         \o HintsOfSkipContentOnly(Tail(ms))

RECURSIVE HintsOf(_)
\* unmatched_hints of a list of MatchedTopic records
HintsOf(ms) ==
    IF ms = <<>> THEN <<>>
    ELSE (IF ms[1].match_method # "unmatched" THEN <<>> ELSE HintOf(ms[1]))
         \o HintsOf(Tail(ms))

\* StatsOf counting as unique only the clusters unique to the first provider
StatsOfFirstProviderOnly(ms) ==
    [total_topics |-> Len(ms),
     consensus |-> CountIf(ms, LAMBDA t : t.agreement_level = <<"consensus">>),
     majority |-> CountIf(ms, LAMBDA t : t.agreement_level = <<"majority">>),
     unique |-> CountIf(ms, LAMBDA t : t.agreement_level = <<"unique", pt_keys[1]>>)]

\* stats of a list of MatchedTopic records
StatsOf(ms) ==
    [total_topics |-> Len(ms),
     consensus |-> CountIf(ms, LAMBDA t : t.agreement_level = <<"consensus">>),
     majority |-> CountIf(ms, LAMBDA t : t.agreement_level = <<"majority">>),
     unique |-> CountIf(ms, LAMBDA t : t.agreement_level[1] = "unique")]

-----------------------------------------------------------------------------
(* extract_topics *)

\* a line of hashes '#' followed, when words > 0, by a blank and that many
\* words
Line(hashes, words) == [hashes |-> hashes, words |-> words]

\* the line is empty
IsBlank(line) == line.hashes = 0 /\ line.words = 0

\* len(line.split()): a run of '#' is one more word
Tokens(line) == (IF line.hashes > 0 THEN 1 ELSE 0) + line.words

\* len(text.split()) of the lines a+1 .. b-1 of the report
WordsBetween(rep, a, b) ==
    SumSeq([k \in 1..(b - a - 1) |-> Tokens(rep[a + k])])

\* the first line after line i that is not empty, 0 when there is none
NextNonBlank(rep, i) ==
    IF \A j \in (i + 1)..Len(rep) : IsBlank(rep[j]) THEN 0
    ELSE CHOOSE j \in (i + 1)..Len(rep) :
            /\ ~IsBlank(rep[j])
            /\ \A m \in (i + 1)..(j - 1) : IsBlank(rep[m])

\* the match of _HEADING_RE that starts at the start of line i, if any:
\* group(1) is the run of 1 to 4 '#', \s+ the blanks or newlines after it,
\* group(2) the rest of the line on which \s+ ends
MatchAt(rep, i) ==
    IF rep[i].hashes \in 1..4 /\ rep[i].words > 0
    THEN [found |-> TRUE, level |-> rep[i].hashes,
          raw_heading |-> Line(0, rep[i].words), first |-> i, last |-> i]
    ELSE IF rep[i].hashes \in 1..4 /\ NextNonBlank(rep, i) # 0
    THEN [found |-> TRUE, level |-> rep[i].hashes,
          raw_heading |-> rep[NextNonBlank(rep, i)],
          first |-> i, last |-> NextNonBlank(rep, i)]
    ELSE [found |-> FALSE, level |-> 0, raw_heading |-> Line(0, 0),
          first |-> i, last |-> i]

RECURSIVE FindIter(_, _)
\* list(_HEADING_RE.finditer(report)) from line i on
FindIter(rep, i) ==
    IF i > Len(rep) THEN <<>>
    ELSE IF MatchAt(rep, i).found
    THEN <<MatchAt(rep, i)>> \o FindIter(rep, MatchAt(rep, i).last + 1)
    ELSE FindIter(rep, i + 1)

\* the Topic of a flat report
NO_HEADINGS == "(no headings)"

\* extract_topics(report)
ExtractTopics(rep) ==
    IF \A i \in 1..Len(rep) : IsBlank(rep[i]) THEN <<>>
    ELSE LET matches == FindIter(rep, 1)
         IN  IF matches = <<>>
             THEN << [heading |-> NO_HEADINGS,
                      level |-> 1,
                      word_count |-> WordsBetween(rep, 0, Len(rep) + 1),
                      coverage |-> Coverage(WordsBetween(rep, 0, Len(rep) + 1))] >>
             ELSE [k \in 1..Len(matches) |->
                     LET body_end == IF k < Len(matches)
                                     THEN matches[k + 1].first
                                     ELSE Len(rep) + 1
                         word_count == WordsBetween(rep, matches[k].last, body_end)
                     IN  [heading |-> matches[k].raw_heading,
                          level |-> matches[k].level,
                          word_count |-> word_count,
                          coverage |-> Coverage(word_count)]]

\* a call extract_topics(report)
ExtractTopicsCall ==
    /\ pc = "extract_topics"
    /\ extracted' = ExtractTopics(report)
    /\ pc' = "done"
    /\ UNCHANGED <<citations, urls, report, call, first_in, first_out>>
    /\ UNCHANGED otherPrograms
    /\ UNCHANGED <<pt_keys, pt, matched>>
    /\ UNCHANGED matchLocals
    /\ UNCHANGED buildVars

-----------------------------------------------------------------------------
(* _extract_urls and _compute_citation_overlap *)

\* the characters of the strings of citations, in the order of their code
\* points
CharsInOrder == <<" ", "a", "b">>

\* a < b for two characters
CharLess(a, b) ==
    \E i, j \in 1..Len(CharsInOrder) :
        CharsInOrder[i] = a /\ CharsInOrder[j] = b /\ i < j

RECURSIVE LStrip(_)
\* a string without its leading blanks
LStrip(str) ==
    IF str = <<>> THEN <<>>
    ELSE IF str[1] = " " THEN LStrip(Tail(str))
    ELSE str

RECURSIVE RStrip(_)
\* a string without its trailing blanks
RStrip(str) ==
    IF str = <<>> THEN <<>>
    ELSE IF str[Len(str)] = " " THEN RStrip(SubSeq(str, 1, Len(str) - 1))
    ELSE str

\* str.strip()
Strip(str) == RStrip(LStrip(str))

\* a citation entry that is a bare string
StrEntry(text) == [kind |-> "str", has_url |-> FALSE, text |-> text]
\* a citation entry that is a dict with the key "url"
UrlEntry(text) == [kind |-> "dict", has_url |-> TRUE, text |-> text]
\* a citation entry that is a dict without the key "url"
DictEntry == [kind |-> "dict", has_url |-> FALSE, text |-> <<>>]
\* a citation entry that is neither a string nor a dict
OtherEntry == [kind |-> "other", has_url |-> FALSE, text |-> <<>>]

\* the URLs one entry of the loop of _extract_urls adds to the set
ExtractOne(citation) ==
    IF citation.kind = "dict"
    THEN LET url == IF citation.has_url THEN citation.text ELSE <<>>
         IN  IF url # <<>> THEN {Strip(url)} ELSE {}
    ELSE IF citation.kind = "str"
    THEN LET url == Strip(citation.text)
         IN  IF url # <<>> THEN {url} ELSE {}
    ELSE {}

\* _extract_urls(citations)
ExtractUrls(cs) == UNION {ExtractOne(cs[k]) : k \in 1..Len(cs)}

RECURSIVE StrLess(_, _)
\* a < b for two strings
StrLess(a, b) ==
    IF b = <<>> THEN FALSE
    ELSE IF a = <<>> THEN TRUE
    ELSE IF a[1] # b[1] THEN CharLess(a[1], b[1])
    ELSE StrLess(Tail(a), Tail(b))

\* the provider names in the order of str comparison
NamesInOrder == <<"gemini", "openai", "perplexity">>

\* a < b for two provider names
NameLess(a, b) ==
    \E i, j \in 1..Len(NamesInOrder) :
        NamesInOrder[i] = a /\ NamesInOrder[j] = b /\ i < j

RECURSIVE SortedNames(_)
\* sorted(providers) of a set of provider names
SortedNames(set) ==
    IF set = {} THEN <<>>
    ELSE LET least == CHOOSE x \in set : \A y \in set \ {x} : NameLess(x, y)
         IN  <<least>> \o SortedNames(set \ {least})

\* the strings a set of URLs can hold
UrlStrings == {<<>>, <<"a">>, <<"b">>}

\* the orders in which the iteration of a set can yield its elements
SetOrders ==
    {o \in [1..Cardinality(UrlStrings) -> UrlStrings] :
        \A i, j \in 1..Cardinality(UrlStrings) : o[i] = o[j] => i = j}

RECURSIVE AddProvider(_, _, _)
\* url_providers after "url_providers[url].add(provider)" for the URLs of the
\* sequence urls_seq, one after the other
AddProvider(items, urls_seq, provider) ==
    IF urls_seq = <<>> THEN items
    ELSE LET url == urls_seq[1]
             at == {k \in 1..Len(items) : items[k][1] = url}
             next == IF at = {}
                     THEN Append(items, <<url, {provider}>>)
                     ELSE [k \in 1..Len(items) |->
                              IF k \in at
                              THEN <<url, items[k][2] \cup {provider}>>
                              ELSE items[k]]
         IN  AddProvider(next, Tail(urls_seq), provider)

RECURSIVE UrlProviders(_, _)
\* the dict url_providers after the loop over the results, the set of the
\* URLs of each result being iterated in the order iter
UrlProviders(rs, iter) ==
    IF rs = <<>> THEN <<>>
    ELSE LET r == rs[Len(rs)]
             provider_urls == ExtractUrls(r.citations)
         IN  AddProvider(UrlProviders(SubSeq(rs, 1, Len(rs) - 1), iter),
                         SelectSeq(iter, LAMBDA u : u \in provider_urls),
                         r.provider)

\* the items of a dict in the order they were inserted: no sorting
UnsortedItems(items) == items

RECURSIVE SortedItems(_)
\* sorted(url_providers.items())
SortedItems(items) ==
    IF items = <<>> THEN <<>>
    ELSE LET least == CHOOSE k \in 1..Len(items) :
                         \A m \in 1..Len(items) :
                            m # k => StrLess(items[k][1], items[m][1])
         IN  <<items[least]>>
             \o SortedItems(SelectSeq(items, LAMBDA it : it # items[least]))

\* the overlap dict filled from the sorted items: the URLs of fewer than two
\* providers are left out
OverlapOf(items) ==
    LET kept == SelectSeq(items, LAMBDA it : Cardinality(it[2]) >= 2)
    IN  [k \in 1..Len(kept) |-> <<kept[k][1], SortedNames(kept[k][2])>>]

\* _compute_citation_overlap(results)
ComputeCitationOverlap(rs, iter) == OverlapOf(SortedItems(UrlProviders(rs, iter)))

\* the citations of every record of a build_matrix call: the URLs 'b' and 'a'
BuildCitations == <<StrEntry(<<" ", "b">>), UrlEntry(<<"a", " ">>)>>

\* a call _extract_urls(citations)
ExtractUrlsCall ==
    /\ pc = "extract_urls"
    /\ urls' = ExtractUrls(citations)
    /\ pc' = "done"
    /\ UNCHANGED <<citations, report, extracted, call, first_in, first_out>>
    /\ UNCHANGED otherPrograms
    /\ UNCHANGED <<pt_keys, pt, matched>>
    /\ UNCHANGED matchLocals
    /\ UNCHANGED buildVars

\* a call _compute_citation_overlap(results)
CitationOverlapCall ==
    /\ pc = "citation_overlap"
    /\ \E iter \in SetOrders :
          citation_overlap' = ComputeCitationOverlap(results, iter)
    /\ pc' = "done"
    /\ UNCHANGED <<results, bm_providers, stats, unmatched_hints>>
    /\ UNCHANGED <<pt_keys, pt, matched>>
    /\ UNCHANGED matchLocals
    /\ UNCHANGED outsideVars

\* build_matrix up to the call of match_topics; extract_topics(r.report) is
\* the Topic list the record carries
BuildStart ==
    /\ pc = "build_matrix"
    /\ IF Successful = <<>>
       THEN /\ matched' = <<>>
            /\ bm_providers' = <<>>
            /\ stats' = NoStats
            /\ unmatched_hints' = <<>>
            /\ citation_overlap' = <<>>
            /\ pc' = "done"
            /\ UNCHANGED <<pt_keys, pt>>
       ELSE /\ bm_providers' = [k \in 1..Len(Successful) |-> Successful[k].provider]
            /\ pt_keys' = DictKeys(Successful)
            /\ pt' = [k \in 1..Len(DictKeys(Successful)) |->
                         DictValue(Successful, DictKeys(Successful)[k])]
            /\ pc' = "match_topics"
            /\ UNCHANGED <<matched, stats, unmatched_hints, citation_overlap>>
    /\ UNCHANGED results
    /\ UNCHANGED matchLocals
    /\ UNCHANGED outsideVars

\* build_matrix after match_topics returned: citation_overlap, stats and
\* unmatched_hints
BuildFinish ==
    /\ pc = "matched"
    /\ bm_providers # <<>>
    /\ \E iter \in SetOrders :
          citation_overlap' = ComputeCitationOverlap(Successful, iter)
    /\ stats' = StatsOf(matched)
    /\ unmatched_hints' = HintsOf(matched)
    /\ pc' = "done"
    /\ UNCHANGED <<results, bm_providers, pt_keys, pt, matched>>
    /\ UNCHANGED matchLocals
    /\ UNCHANGED outsideVars

-----------------------------------------------------------------------------
(* Specifications *)

\* the values of the variables a call has not assigned yet
Unassigned ==
    /\ used = <<>>
    /\ clusters = <<>>
    /\ ap = 0
    /\ ai = 0
    /\ op = 0
    /\ cur = NoCluster
    /\ i2 = 0
    /\ matched = <<>>
    /\ bm_providers = <<>>
    /\ stats = NoStats
    /\ unmatched_hints = <<>>
    /\ citation_overlap = <<>>

\* the values of the variables of the functions that are not called, and of
\* a caller that makes its first call
Outside ==
    /\ citations = <<>>
    /\ urls = {}
    /\ report = <<>>
    /\ extracted = <<>>
    /\ call = 1
    /\ first_in = <<>>
    /\ first_out = <<>>
    /\ OthersIdle

\* a call match_topics(provider_topics)
Init ==
    /\ pc = "match_topics"
    /\ results = <<>>
    /\ \E n \in 0..Len(ProviderNames), k \in 0..MaxTotal :
          \E s \in [1..k -> Range(TopicPool)], g \in Splits(k, n) :
             /\ pt_keys = SubSeq(ProviderNames, 1, n)
             /\ pt = TopicLists(n, s, g)
    /\ Unassigned
    /\ Outside

MatchNext ==
    \/ MatchStart
    \/ AnchorStart
    \/ SearchOther
    \/ CloseCluster
    \/ Pass1Done
    \/ Pass2Step
    \/ Convert

Next == MatchNext

Spec == Init /\ [][Next]_vars

\* a call build_matrix(results)
BuildInit ==
    /\ pc = "build_matrix"
    /\ \E n \in 0..Len(ProviderNames), k \in 0..MaxTotal :
          \E s \in [1..k -> BuildPool], g \in Splits(k, n),
             flags \in [1..n -> BOOLEAN] :
             results = [p \in 1..n |-> [provider |-> ProviderNames[p],
                                        success |-> flags[p],
                                        topics |-> TopicLists(n, s, g)[p],
                                        citations |-> BuildCitations]]
    /\ pt_keys = <<>>
    /\ pt = <<>>
    /\ Unassigned
    /\ Outside

BuildNext ==
    \/ BuildStart
    \/ MatchNext
    \/ BuildFinish

BuildSpec == BuildInit /\ [][BuildNext]_vars

\* a call match_topics(provider_topics) on Topics of the pool of build_matrix
DirectInit ==
    /\ pc = "match_topics"
    /\ results = <<>>
    /\ \E n \in 0..Len(ProviderNames), k \in 0..MaxTotal :
          \E s \in [1..k -> BuildPool], g \in Splits(k, n) :
             /\ pt_keys = SubSeq(ProviderNames, 1, n)
             /\ pt = TopicLists(n, s, g)
    /\ Unassigned
    /\ Outside

\* a call of either function
EitherSpec == (DirectInit \/ BuildInit) /\ [][BuildNext]_vars

\* the lines that the reports are made of: an empty line, two words, the
\* headings '# w' and '#### w w w', the line '##' and the line '##### w'
LinePool ==
    {Line(0, 0), Line(0, 2), Line(1, 1), Line(4, 3), Line(2, 0), Line(5, 1)}

\* a call extract_topics(report)
TopicsInit ==
    /\ pc = "extract_topics"
    /\ \E n \in 0..MaxLines : \E r \in [1..n -> LinePool] : report = r
    /\ results = <<>>
    /\ pt_keys = <<>>
    /\ pt = <<>>
    /\ Unassigned
    /\ citations = <<>>
    /\ urls = {}
    /\ extracted = <<>>
    /\ call = 1
    /\ first_in = <<>>
    /\ first_out = <<>>
    /\ OthersIdle

TopicsNext == ExtractTopicsCall

TopicsSpec == TopicsInit /\ [][TopicsNext]_vars

\* the ComparisonMatrix a build_matrix call returns
Output ==
    [providers |-> bm_providers,
     topics |-> matched,
     citation_overlap |-> citation_overlap,
     stats |-> stats,
     unmatched_hints |-> unmatched_hints]

\* t.coverage.get(provider, "absent")
CoverageGet(coverage, provider) ==
    IF \E k \in 1..Len(coverage) : coverage[k][1] = provider
    THEN coverage[CHOOSE k \in 1..Len(coverage) : coverage[k][1] = provider][2]
    ELSE "absent"

\* the entry of to_dict()["topics"] for one MatchedTopic: its items in the
\* order of their insertion
ToDictTopic(t) ==
    <<<<"name", t.canonical_name>>>>
    \o [k \in 1..Len(bm_providers) |->
           <<bm_providers[k], CoverageGet(t.coverage, bm_providers[k])>>]
    \o <<<<"agreement", t.agreement_level>>, <<"match_method", t.match_method>>>>

\* ComparisonMatrix.to_dict() of the matrix that was returned
ToDict ==
    [providers |-> bm_providers,
     topics |-> [k \in 1..Len(matched) |-> ToDictTopic(matched[k])],
     citation_overlap |-> citation_overlap,
     stats |-> stats,
     unmatched_hints |-> unmatched_hints]

\* the caller keeps what its first call returned and calls build_matrix(rs);
\* whatever the first call left behind is still there
CallAgain(rs) ==
    /\ pc = "done"
    /\ call = 1
    /\ first_in' = results
    /\ first_out' = Output
    /\ results' = rs
    /\ call' = 2
    /\ pc' = "build_matrix"
    /\ UNCHANGED <<bm_providers, stats, unmatched_hints, citation_overlap>>
    /\ UNCHANGED <<pt_keys, pt, matched>>
    /\ UNCHANGED matchLocals
    /\ UNCHANGED <<citations, urls, report, extracted>>
    /\ UNCHANGED otherPrograms

\* the second call is given the list of the first without its failed records
CallWithoutFailed ==
    /\ \E k \in 1..Len(results) : ~results[k].success
    /\ CallAgain(SelectSeq(results, LAMBDA r : r.success))

\* the second call is given the list of the first
CallSameAgain == CallAgain(results)

AgainNext ==
    \/ BuildNext
    \/ CallSameAgain

\* build_matrix(results) twice
AgainSpec == BuildInit /\ [][AgainNext]_vars

\* the lists of a call made between two calls on the same list
OtherInputs ==
    { <<>>,
      << [provider |-> "openai", success |-> TRUE,
          topics |-> <<TopicPool[1], TopicPool[4]>>, citations |-> BuildCitations],
         [provider |-> "perplexity", success |-> TRUE,
          topics |-> <<TopicPool[7]>>, citations |-> <<>>] >> }

\* the second call is given another list
CallOther == \E rs \in OtherInputs : CallAgain(rs)

\* the third call is given the list of the first
CallFirstAgain ==
    /\ pc = "done"
    /\ call = 2
    /\ results' = first_in
    /\ call' = 3
    /\ pc' = "build_matrix"
    /\ UNCHANGED <<bm_providers, stats, unmatched_hints, citation_overlap>>
    /\ UNCHANGED <<pt_keys, pt, matched>>
    /\ UNCHANGED matchLocals
    /\ UNCHANGED <<citations, urls, report, extracted, first_in, first_out>>
    /\ UNCHANGED otherPrograms

\* a first call build_matrix(results) on successful records, by a caller
\* that keeps the list it passes
AloneInit ==
    /\ pc = "build_matrix"
    /\ \E n \in 0..Len(ProviderNames), k \in 0..MaxTotal :
          \E s \in [1..k -> BuildPool], g \in Splits(k, n) :
             results = [p \in 1..n |-> [provider |-> ProviderNames[p],
                                        success |-> TRUE,
                                        topics |-> TopicLists(n, s, g)[p],
                                        citations |-> BuildCitations]]
    /\ pt_keys = <<>>
    /\ pt = <<>>
    /\ Unassigned
    /\ citations = <<>>
    /\ urls = {}
    /\ report = <<>>
    /\ extracted = <<>>
    /\ call = 1
    /\ first_in = results
    /\ first_out = <<>>
    /\ OthersIdle

AloneNext ==
    \/ BuildNext
    \/ CallOther
    \/ CallFirstAgain

\* build_matrix on a list, then on another list, then on the first again
AloneSpec == AloneInit /\ [][AloneNext]_vars

RemovedNext ==
    \/ BuildNext
    \/ CallWithoutFailed

\* build_matrix(results), then build_matrix on the successful records alone
RemovedSpec == BuildInit /\ [][RemovedNext]_vars

\* the citation entries that the inputs of _extract_urls are drawn from:
\* the strings '', ' ', 'a' and ' b ', dicts with the url '', ' ' and ' a',
\* a dict without url, and an entry of another type
CitationPool ==
    {StrEntry(<<>>), StrEntry(<<" ">>), StrEntry(<<"a">>),
     StrEntry(<<" ", "b", " ">>),
     UrlEntry(<<>>), UrlEntry(<<" ">>), UrlEntry(<<" ", "a">>),
     DictEntry, OtherEntry}

\* the citation entries of the inputs of _compute_citation_overlap
OverlapPool ==
    {StrEntry(<<"a">>), StrEntry(<<" ", "b", " ">>),
     UrlEntry(<<"a", " ">>), UrlEntry(<<" ">>)}

\* a call _extract_urls(citations)
ExtractInit ==
    /\ pc = "extract_urls"
    /\ \E k \in 0..MaxCitations : \E s \in [1..k -> CitationPool] :
          citations = s
    /\ results = <<>>

\* a call _compute_citation_overlap(results)
OverlapInit ==
    /\ pc = "citation_overlap"
    /\ \E n \in 0..Len(ProviderNames), k \in 0..MaxCitations :
          \E s \in [1..k -> OverlapPool], g \in Splits(k, n) :
             results = [p \in 1..n |-> [provider |-> ProviderNames[p],
                                        success |-> TRUE,
                                        topics |-> <<>>,
                                        citations |-> TopicLists(n, s, g)[p]]]
    /\ citations = <<>>

CiteInit ==
    /\ ExtractInit \/ OverlapInit
    /\ pt_keys = <<>>
    /\ pt = <<>>
    /\ Unassigned
    /\ urls = {}
    /\ report = <<>>
    /\ extracted = <<>>
    /\ call = 1
    /\ first_in = <<>>
    /\ first_out = <<>>
    /\ OthersIdle

CiteNext ==
    \/ ExtractUrlsCall
    \/ CitationOverlapCall

CiteSpec == CiteInit /\ [][CiteNext]_vars

TypeOK ==
    /\ pc \in {"build_matrix", "match_topics", "pass1", "search", "pass2",
               "matched", "done", "extract_urls", "citation_overlap",
               "extract_topics"}
    /\ Len(pt) = Len(pt_keys)

-----------------------------------------------------------------------------
(* Properties of match_topics and build_matrix *)

\* the positions of the clusters that were not absorbed in Pass 2
SurvivingIdx == {c \in 1..Len(clusters) : clusters[c].merged_into = 0}

\* the clusters exist: Pass 1 is over
ClustersBuilt == pc \in {"pass2", "matched", "done"} /\ pt_keys # <<>>

\* match_topics has returned from a call with at least one provider
Returned == pc \in {"matched", "done"} /\ pt_keys # <<>>

\* C1: the clusters partition the input Topics: once Pass 1 is over, and
\* through Pass 2 to the return, every Topic of every provider is held by
\* exactly one cluster that is not absorbed; and in the returned list, for
\* every provider, the number of MatchedTopics whose coverage for it is not
\* 'absent' is the number of its Topics.
C1_Partition ==
    /\ ClustersBuilt =>
          \A p \in 1..NumProviders : \A idx \in 1..Len(pt[p]) :
             Cardinality({c \in SurvivingIdx : clusters[c].topics[p] = idx}) = 1
    /\ Returned =>
          \A p \in 1..NumProviders :
             CountIf(matched, LAMBDA t : t.coverage[p][2] # "absent") = Len(pt[p])

\* C1 witness: match_topics returned after a Pass 2 merge, with a cluster that
\* holds Topics of two providers and another cluster besides
C1_Witness ==
    /\ pc = "matched"
    /\ Len(matched) >= 2
    /\ \E c \in 1..Len(clusters) : clusters[c].merged_into # 0

\* the other providers whose Topic the cluster under construction accepted
Accepted == {k \in 1..NumProviders : k # ap /\ cur.topics[k] # 0}

\* the anchor Topic of the cluster under construction
CurAnchor == pt[ap][ai]

\* every other provider of the cluster under construction has been searched
CurComplete == pc = "search" /\ op > NumProviders

\* C2 (as claimed): when a Pass 1 cluster is complete, its match method is
\* 'exact' if any accepted Topic was accepted with score 1.0, 'heading-fuzzy'
\* if some Topic was accepted and none with score 1.0, 'unmatched' if none
\* was accepted.
C2_MethodFromAnyScore ==
    CurComplete =>
        cur.match_method =
            IF \E k \in Accepted :
                  FracEQ(AcceptScore(CurAnchor, pt[k][cur.topics[k]]), ONE)
            THEN "exact"
            ELSE IF Accepted # {} THEN "heading-fuzzy"
            ELSE "unmatched"

\* the word sets of two headings have Jaccard similarity below 0.60
BelowFuzzy(h1, h2) == ~FracGE(JaccardHeadings(h1, h2), <<3, 5>>)

\* C3 (as claimed): two Topics of different providers whose normalized
\* headings differ and have word-set similarity below 0.60 never share a
\* returned cluster; when they are the whole input of build_matrix, each is
\* returned in a cluster of its own with match_method 'unmatched' and both
\* are listed in unmatched_hints.
C3_LowHeadingSimilarityStaysUnmatched ==
    /\ Returned =>
          \A c \in SurvivingIdx : \A p, q \in 1..NumProviders :
             (p # q /\ clusters[c].topics[p] # 0 /\ clusters[c].topics[q] # 0)
             => \/ TopicAt(clusters[c], p).heading = TopicAt(clusters[c], q).heading
                \/ ~BelowFuzzy(TopicAt(clusters[c], p).heading,
                               TopicAt(clusters[c], q).heading)
    /\ ( /\ pc = "done"
         /\ NumProviders = 2
         /\ Len(pt[1]) = 1
         /\ Len(pt[2]) = 1
         /\ pt[1][1].heading # pt[2][1].heading
         /\ BelowFuzzy(pt[1][1].heading, pt[2][1].heading) )
       => /\ Len(matched) = 2
          /\ \A k \in 1..Len(matched) : matched[k].match_method = "unmatched"
          /\ Len(unmatched_hints) = 2
          /\ {unmatched_hints[k].provider : k \in 1..Len(unmatched_hints)}
               = Range(pt_keys)

\* C4: every returned MatchedTopic has the agreement level that the number of
\* providers of the input and the number of non-absent entries of its
\* coverage map determine.
C4_Agreement ==
    Returned =>
        \A k \in 1..Len(matched) :
            LET cov == matched[k].coverage
                present == {m \in 1..Len(cov) : cov[m][2] # "absent"}
                activeCount == Len(pt_keys)
                presentCount == Cardinality(present)
            IN  matched[k].agreement_level =
                    IF activeCount = 1 THEN <<"unique", pt_keys[1]>>
                    ELSE IF presentCount = activeCount THEN <<"consensus">>
                    ELSE IF presentCount >= 2 THEN <<"majority">>
                    ELSE <<"unique", cov[CHOOSE m \in present : present = {m}][1]>>

\* C4 witness: three providers, a returned cluster that two of them share
\* and a returned cluster of a single one
C4_Witness ==
    /\ pc = "matched"
    /\ NumProviders = 3
    /\ \E k \in 1..Len(matched) : matched[k].agreement_level = <<"majority">>
    /\ \E k \in 1..Len(matched) : matched[k].agreement_level[1] = "unique"

\* C5: in every output of build_matrix the three agreement counts add up to
\* total_topics, and total_topics is the number of entries of topics.
C5_StatsSum ==
    pc = "done" =>
        /\ stats.consensus + stats.majority + stats.unique = stats.total_topics
        /\ stats.total_topics = Len(matched)

\* C5 witness: build_matrix finished on a list with a failed record, with a
\* consensus cluster and a unique one for its second provider
C5_Witness ==
    /\ pc = "done"
    /\ Len(Successful) < Len(results)
    /\ stats.consensus >= 1
    /\ \E k \in 1..Len(matched) :
          matched[k].agreement_level = <<"unique", pt_keys[2]>>

\* Pass 1 has just ended: the clusters are those of Pass 1
Pass1Over == pc = "pass2" /\ i2 = 1

\* the input is two providers with one Topic each, of different headings
TwoSingleTopics ==
    /\ NumProviders = 2
    /\ Len(pt[1]) = 1
    /\ Len(pt[2]) = 1
    /\ pt[1][1].heading # pt[2][1].heading

\* C6: in Pass 1 a Topic whose heading differs from the anchor's is accepted
\* only with a heading similarity of at least 0.60; for two providers with
\* one Topic each, a similarity of exactly 3/5 gives one Pass 1 cluster
\* labelled 'heading-fuzzy', and a lower one gives two Pass 1 clusters.
C6_FuzzyThreshold ==
    /\ pc = "search" =>
          \A k \in Accepted :
             \/ pt[k][cur.topics[k]].heading = CurAnchor.heading
             \/ FracGE(JaccardHeadings(CurAnchor.heading,
                                       pt[k][cur.topics[k]].heading), <<3, 5>>)
    /\ (Pass1Over /\ TwoSingleTopics) =>
          LET sim == JaccardHeadings(pt[1][1].heading, pt[2][1].heading)
          IN  /\ FracEQ(sim, <<3, 5>>) =>
                    /\ Len(clusters) = 1
                    /\ clusters[1].match_method = "heading-fuzzy"
              /\ ~FracGE(sim, <<3, 5>>) => Len(clusters) = 2

\* C6 witness: Pass 1 ended with one cluster for two Topics whose headings
\* share 3 of 5 words
C6_Witness ==
    /\ Pass1Over
    /\ TwoSingleTopics
    /\ FracEQ(JaccardHeadings(pt[1][1].heading, pt[2][1].heading), <<3, 5>>)
    /\ Len(clusters) = 1

\* the least element of a non-empty set of indices
Least(set) == CHOOSE k \in set : \A m \in set : k <= m

\* C7: one search of another provider in Pass 1 considers only its Topics not
\* yet assigned; it takes the earliest one whose heading equals the anchor's
\* if there is one (score 1.0: a cluster still 'unmatched' becomes 'exact'),
\* else the earliest of those with the highest heading similarity provided
\* that similarity is at least 0.60, else none; the Topic taken, and only
\* it, is added to the provider's assigned set and fills the provider's slot.
C7_BestMatchStep ==
    [][ (pc = "search" /\ op <= NumProviders) =>
          LET needle == pt[ap][ai]
              candidates == pt[op]
              free == {k \in 1..Len(candidates) : k \notin used[op]}
              exacts == {k \in free : candidates[k].heading = needle.heading}
              sim(k) == JaccardHeadings(needle.heading, candidates[k].heading)
              top == {k \in free : \A m \in free : FracGE(sim(k), sim(m))}
              expected == IF exacts # {} THEN Least(exacts)
                          ELSE IF free # {} /\ FracGE(sim(Least(top)), <<3, 5>>)
                               THEN Least(top)
                          ELSE 0
          IN  /\ cur.topics[op] = 0
              /\ cur'.topics = [cur.topics EXCEPT ![op] = expected]
              /\ used' = [used EXCEPT ![op] =
                             IF expected = 0 THEN @ ELSE @ \cup {expected}]
              /\ (exacts # {} /\ cur.match_method = "unmatched")
                     => cur'.match_method = "exact"
      ]_vars

\* C7 witness: the anchor took the second Topic of another provider, whose
\* heading equals its own, although the first Topic of that provider was
\* free and similar enough for a fuzzy match
C7_Witness ==
    /\ pc = "search"
    /\ \E k \in Accepted :
          /\ cur.topics[k] = 2
          /\ 1 \notin used[k]
          /\ pt[k][2].heading = CurAnchor.heading
          /\ pt[k][1].heading # CurAnchor.heading
          /\ FracGE(JaccardHeadings(CurAnchor.heading, pt[k][1].heading), <<3, 5>>)

\* the keyword set of the anchor Topic of cluster c
AnchorKeywords(c) == AnchorTopic(clusters[c]).body_keywords

\* the step merges cluster j into cluster i and changes no other cluster
MergedWith(i, j) ==
    /\ Len(clusters') = Len(clusters)
    /\ clusters'[i].match_method = "content-fuzzy"
    /\ clusters'[i].merged_into = 0
    /\ \A p \in 1..NumProviders :
          clusters'[i].topics[p] =
              IF clusters[i].topics[p] # 0 THEN clusters[i].topics[p]
              ELSE clusters[j].topics[p]
    /\ clusters'[j] = [clusters[j] EXCEPT !.merged_into = i]
    /\ \A c \in 1..Len(clusters) : c \notin {i, j} => clusters'[c] = clusters[c]

\* The Pass 2 rule for every step that visits a cluster still 'unmatched'
\* and not absorbed: it is merged with the earliest of the candidates of
\* highest keyword similarity if that similarity is at least 0.30, else
\* nothing changes; and the return holds one MatchedTopic per cluster that
\* was not absorbed. The candidates are the other clusters still
\* 'unmatched', not absorbed and anchored on another provider; with
\* needKeywords, the visited cluster and the candidates must moreover have a
\* non-empty anchor keyword set.
Pass2Rule(needKeywords) ==
    /\ (pc = "pass2" /\ i2 <= Len(clusters)
          /\ clusters[i2].match_method = "unmatched"
          /\ clusters[i2].merged_into = 0) =>
          LET i == i2
              cands == {j \in 1..Len(clusters) \ {i} :
                          /\ clusters[j].match_method = "unmatched"
                          /\ clusters[j].merged_into = 0
                          /\ AnchorOf(clusters[j]) # AnchorOf(clusters[i])
                          /\ needKeywords => AnchorKeywords(j) # {}}
              sim(j) == JaccardSets(AnchorKeywords(i), AnchorKeywords(j))
              top == {j \in cands : \A m \in cands : FracGE(sim(j), sim(m))}
          IN  IF /\ needKeywords => AnchorKeywords(i) # {}
                 /\ cands # {}
                 /\ FracGE(sim(Least(top)), <<3, 10>>)
              THEN MergedWith(i, Least(top))
              ELSE clusters' = clusters
    /\ (pc = "pass2" /\ pc' = "matched") =>
          Len(matched') = Cardinality(SurvivingIdx)

\* C8 (as claimed): every Pass 2 step follows the rule, the keyword sets
\* being of any size (two empty sets have similarity 1.0).
C8_Pass2MergeAsClaimed == [][Pass2Rule(FALSE)]_vars

\* C8 (amended): every Pass 2 step follows the rule restricted to clusters
\* whose anchor Topic has at least one keyword: a cluster whose anchor has no
\* keyword is neither merged nor chosen as a partner.
C8_Pass2Merge == [][Pass2Rule(TRUE)]_vars

\* C8 witness: a cluster has absorbed a partner whose anchor keyword set has
\* similarity exactly 3/10 with its own
C8_Witness ==
    /\ pc = "pass2"
    /\ \E i, j \in 1..Len(clusters) :
          /\ clusters[j].merged_into = i
          /\ clusters[i].match_method = "content-fuzzy"
          /\ FracEQ(JaccardSets(AnchorKeywords(i), AnchorKeywords(j)), <<3, 10>>)

\* the number of providers of which cluster c holds a Topic
PresentSlots(c) ==
    Cardinality({p \in 1..NumProviders : clusters[c].topics[p] # 0})

\* C9: no cluster takes part in two Pass 2 merges: an absorbed cluster is
\* still 'unmatched' with its single Topic and was absorbed by a cluster that
\* is 'content-fuzzy' and not absorbed itself; a 'content-fuzzy' cluster is
\* not absorbed, has absorbed exactly one cluster and holds Topics of exactly
\* two providers; so does every returned 'content-fuzzy' MatchedTopic.
C9_NoChainedMerge ==
    /\ ClustersBuilt =>
          \A c \in 1..Len(clusters) :
             /\ clusters[c].merged_into # 0 =>
                   /\ clusters[c].match_method = "unmatched"
                   /\ PresentSlots(c) = 1
                   /\ clusters[clusters[c].merged_into].match_method = "content-fuzzy"
                   /\ clusters[clusters[c].merged_into].merged_into = 0
             /\ clusters[c].match_method = "content-fuzzy" =>
                   /\ clusters[c].merged_into = 0
                   /\ Cardinality({j \in 1..Len(clusters) :
                                      clusters[j].merged_into = c}) = 1
                   /\ PresentSlots(c) = 2
    /\ Returned =>
          \A k \in 1..Len(matched) :
             matched[k].match_method = "content-fuzzy"
                => PresentCount(matched[k].coverage) = 2

\* C9 witness: with three providers, match_topics returned a 'content-fuzzy'
\* cluster and left 'unmatched' a cluster of the third provider whose
\* keywords are similar enough to those of a Topic of the merged cluster
C9_Witness ==
    /\ pc = "matched"
    /\ NumProviders = 3
    /\ \E a, u \in SurvivingIdx :
          /\ clusters[a].match_method = "content-fuzzy"
          /\ clusters[u].match_method = "unmatched"
          /\ clusters[a].topics[AnchorOf(clusters[u])] = 0
          /\ AnchorKeywords(u) # {}
          /\ \E p \in 1..NumProviders :
                /\ clusters[a].topics[p] # 0
                /\ FracGE(JaccardSets(TopicAt(clusters[a], p).body_keywords,
                                      AnchorKeywords(u)), <<3, 10>>)

\* C10: the coverage map of every returned MatchedTopic has one entry per
\* provider of the input, in the order of the input: 'absent' when its
\* cluster holds no Topic of the provider, else 'detailed' when that Topic
\* has at least 100 body words and 'mentioned' when it has fewer.
C10_CoverageMap ==
    Returned =>
        /\ Len(matched) = Len(Surviving)
        /\ \A k \in 1..Len(matched) :
              /\ Len(matched[k].coverage) = NumProviders
              /\ \A m \in 1..NumProviders :
                    /\ matched[k].coverage[m][1] = pt_keys[m]
                    /\ matched[k].coverage[m][2] =
                          IF Surviving[k].topics[m] = 0 THEN "absent"
                          ELSE IF TopicAt(Surviving[k], m).word_count >= 100
                               THEN "detailed"
                          ELSE "mentioned"

\* C10 witness: a returned coverage map with an absent provider, a provider
\* whose Topic has exactly 100 words, and a provider whose Topic has fewer
C10_Witness ==
    /\ pc = "matched"
    /\ \E k \in 1..Len(matched) : \E a, d, m \in 1..NumProviders :
          /\ matched[k].coverage[a][2] = "absent"
          /\ matched[k].coverage[d][2] = "detailed"
          /\ TopicAt(Surviving[k], d).word_count = 100
          /\ matched[k].coverage[m][2] = "mentioned"

\* the providers of which a cluster holds a Topic
PresentIn(cluster) == {p \in 1..NumProviders : cluster.topics[p] # 0}

\* C11: the canonical name of every returned MatchedTopic is the heading of a
\* Topic of its cluster as it stands after both passes, no Topic of the
\* cluster has a longer heading, and among the Topics with a heading of that
\* length it is the one met first: the anchor's, then those of the other
\* providers in insertion order (the anchor of a cluster being the first of
\* its providers, as the first conjunct states for the cluster Pass 1 is
\* building).
C11_CanonicalName ==
    /\ pc = "search" => /\ cur.topics[ap] = ai
                        /\ \A m \in 1..(ap - 1) : cur.topics[m] = 0
    /\ Returned =>
          \A k \in 1..Len(matched) :
             \E p \in PresentIn(Surviving[k]) :
                /\ matched[k].canonical_name = TopicAt(Surviving[k], p).heading
                /\ \A m \in PresentIn(Surviving[k]) :
                      /\ HeadingLen(TopicAt(Surviving[k], m).heading)
                            <= HeadingLen(matched[k].canonical_name)
                      /\ (m < p) =>
                            HeadingLen(TopicAt(Surviving[k], m).heading)
                               < HeadingLen(matched[k].canonical_name)

\* C11 witness: match_topics returned a cluster that holds two Topics with
\* different headings of the same greatest length, named after the first
C11_Witness ==
    /\ pc = "matched"
    /\ \E k \in 1..Len(matched) : \E p, m \in PresentIn(Surviving[k]) :
          /\ p < m
          /\ TopicAt(Surviving[k], p).heading # TopicAt(Surviving[k], m).heading
          /\ HeadingLen(TopicAt(Surviving[k], p).heading)
                = HeadingLen(TopicAt(Surviving[k], m).heading)
          /\ matched[k].canonical_name = TopicAt(Surviving[k], p).heading

\* the positions in matched of the MatchedTopics labelled 'unmatched'
UnmatchedIdx ==
    SelectSeq([k \in 1..Len(matched) |-> k],
              LAMBDA k : matched[k].match_method = "unmatched")

\* the hint the claim gives the k-th MatchedTopic: the keywords are those of
\* the Topic its cluster holds
OwnTopicHint(k) ==
    LET p == AnchorOf(Surviving[k])
    IN  [provider |-> pt_keys[p],
         heading |-> matched[k].canonical_name,
         top_keywords |-> TopKeywords(TopicAt(Surviving[k], p).body_keywords)]

\* C12 (as claimed): build_matrix returns exactly one hint per MatchedTopic
\* labelled 'unmatched', in cluster order; its provider is the cluster's
\* single present provider, its heading the canonical name, and its
\* top_keywords the first (at most 20) sorted keywords of the very Topic the
\* cluster holds, also when a provider has two Topics of the same heading.
C12_HintPerUnmatchedTopic ==
    (pc = "done" /\ bm_providers # <<>>) =>
        /\ \A k \in 1..Len(matched) :
              matched[k].match_method = "unmatched"
                 => Cardinality(PresentIn(Surviving[k])) = 1
        /\ unmatched_hints =
              [h \in 1..Len(UnmatchedIdx) |-> OwnTopicHint(UnmatchedIdx[h])]

-----------------------------------------------------------------------------
(* Properties of _extract_urls and _compute_citation_overlap *)

\* the citation entries that have a usable URL: a bare string, or the url
\* field of a dict, that is not empty once its surrounding blanks are stripped
UsableEntries(cs) ==
    {k \in 1..Len(cs) :
        /\ \/ cs[k].kind = "str"
           \/ cs[k].kind = "dict" /\ cs[k].has_url
        /\ Strip(cs[k].text) # <<>>}

\* the URLs a list of citations contributes
CitedUrls(cs) == {Strip(cs[k].text) : k \in UsableEntries(cs)}

\* the successful sources that cite the URL u
CitedBy(u) ==
    {results[k].provider :
        k \in {m \in 1..Len(results) :
                  results[m].success /\ u \in CitedUrls(results[m].citations)}}

\* the keys of citation_overlap
OverlapKeys == {citation_overlap[k][1] : k \in 1..Len(citation_overlap)}

\* C13 (as claimed): a URL is a key of citation_overlap exactly when at least
\* two distinct successful sources cite it, surrounding blanks stripped; its
\* value is the sorted list, without duplicates, of exactly those sources;
\* the keys are in sorted order.
C13_OverlapOfTwoSources ==
    pc = "done" =>
        /\ \A u \in UrlStrings \cup OverlapKeys :
              u \in OverlapKeys <=> Cardinality(CitedBy(u)) >= 2
        /\ \A k \in 1..Len(citation_overlap) :
              /\ Range(citation_overlap[k][2]) = CitedBy(citation_overlap[k][1])
              /\ \A i, j \in 1..Len(citation_overlap[k][2]) :
                    i < j => NameLess(citation_overlap[k][2][i],
                                      citation_overlap[k][2][j])
        /\ \A i, j \in 1..Len(citation_overlap) :
              i < j => StrLess(citation_overlap[i][1], citation_overlap[j][1])

\* C14 (as claimed): _extract_urls returns the URLs of the usable entries and
\* nothing else: an entry of another type, a dict without url or with an
\* empty one, and a string or url that is blank contribute nothing; the empty
\* string is neither in the returned set nor a key of citation_overlap; a
\* bare string and a dict with the same url contribute the same URL.
C14_UnusableEntriesSkipped ==
    pc = "done" =>
        /\ urls = CitedUrls(citations)
        /\ <<>> \notin urls
        /\ <<>> \notin OverlapKeys

-----------------------------------------------------------------------------
(* Properties of build_matrix as a whole *)

\* the names of the records whose success flag is false
FailedNames ==
    {results[k].provider : k \in {m \in 1..Len(results) : ~results[m].success}}

\* the number of records whose success flag is true
ActiveCount == Cardinality({k \in 1..Len(results) : results[k].success})

\* C15: a record whose success flag is false has no effect on what
\* build_matrix returns: its name is not in the source list, is no key of a
\* coverage map, is in no value of citation_overlap, and the agreement levels
\* count the successful records only ('consensus' is a Topic of each of two
\* or more successful records, 'unique-<p>' names a successful record); and
\* a second call on the list without its failed records returns the same.
C15_FailedHasNoEffect ==
    pc = "done" =>
        /\ FailedNames \cap Range(bm_providers) = {}
        /\ \A k \in 1..Len(matched) :
              /\ Len(matched[k].coverage) = ActiveCount
              /\ \A m \in 1..Len(matched[k].coverage) :
                    matched[k].coverage[m][1] \notin FailedNames
              /\ matched[k].agreement_level = <<"consensus">>
                    <=> /\ ActiveCount >= 2
                        /\ PresentCount(matched[k].coverage) = ActiveCount
              /\ matched[k].agreement_level[1] = "unique"
                    => matched[k].agreement_level[2] \notin FailedNames
        /\ \A k \in 1..Len(citation_overlap) :
              FailedNames \cap Range(citation_overlap[k][2]) = {}
        /\ call = 2 => Output = first_out

\* C15 witness: the second call, made without the failed record of the
\* first, returned a matrix of two sources that has a cluster, and the first
\* call was given three records
C15_Witness ==
    /\ pc = "done"
    /\ call = 2
    /\ Len(first_in) = 3
    /\ Len(bm_providers) = 2
    /\ matched # <<>>
    /\ citation_overlap # <<>>

\* the names of the successful records, in the order of the input
ActiveNames ==
    LET active == SelectSeq(results, LAMBDA r : r.success)
    IN  [k \in 1..Len(active) |-> active[k].provider]

\* the keys of a sequence of <<key, value>> items, in its order
KeysOf(items) == [k \in 1..Len(items) |-> items[k][1]]

\* C16: the source list of the matrix build_matrix returns is the sequence of
\* the names of the successful records in their input order, the coverage
\* map of every cluster lists the sources in that order, and so do the
\* providers list and every topic entry of to_dict(), between "name" and
\* "agreement", each with the level the coverage map has for it.
C16_SourcesInInputOrder ==
    pc = "done" =>
        /\ bm_providers = ActiveNames
        /\ ToDict.providers = ActiveNames
        /\ \A k \in 1..Len(matched) :
              /\ KeysOf(matched[k].coverage) = ActiveNames
              /\ KeysOf(ToDict.topics[k])
                    = <<"name">> \o ActiveNames \o <<"agreement", "match_method">>
              /\ \A m \in 1..Len(ActiveNames) :
                    ToDict.topics[k][m + 1][2] = matched[k].coverage[m][2]

\* C16 witness: a matrix was returned for the successful records 'openai' and
\* 'gemini', given in that order with a failed 'perplexity' between them, and
\* it has a cluster
C16_Witness ==
    /\ pc = "done"
    /\ Len(results) = 3
    /\ ~results[2].success
    /\ bm_providers = <<"openai", "gemini">>
    /\ matched # <<>>

\* every Topic list of provider_topics is empty (so is the case of no list)
NoTopics == \A p \in 1..Len(pt) : pt[p] = <<>>

\* C17: build_matrix on an empty list, or on a list whose records all have
\* success false, does not fail and returns the matrix with no sources, no
\* topics, an empty citation_overlap, no unmatched_hints and the four stats
\* at 0; match_topics on an empty map, or on a map whose Topic lists are all
\* empty, does not fail and returns the empty list.
C17_NothingToCompare ==
    /\ (pc = "build_matrix" /\ ActiveCount = 0) => ENABLED BuildStart
    /\ (pc = "done" /\ ActiveCount = 0) =>
          Output = [providers |-> <<>>,
                    topics |-> <<>>,
                    citation_overlap |-> <<>>,
                    stats |-> [total_topics |-> 0, consensus |-> 0,
                               majority |-> 0, unique |-> 0],
                    unmatched_hints |-> <<>>]
    /\ (pc \in {"match_topics", "pass1", "search", "pass2"} /\ NoTopics)
          => ENABLED MatchNext
    /\ (pc = "matched" /\ NoTopics) => matched = <<>>

\* C17 witness: build_matrix has returned from a call on two records that
\* both have success false and Topics
C17_Witness ==
    /\ pc = "done"
    /\ Len(results) = 2
    /\ \A k \in 1..2 : ~results[k].success /\ results[k].topics # <<>>

\* C18: build_matrix is deterministic: a second run on the same list returns
\* the same matrix as the first, with the same order of sources, clusters,
\* citation_overlap keys and values, hints and keywords, whatever the order
\* in which each run iterates its sets.
C18_SameInputSameOutput ==
    (pc = "done" /\ call = 2) =>
        /\ results = first_in
        /\ Output = first_out

\* C18 witness: the second run on the same list returned a matrix with two
\* clusters, two citation_overlap keys of two sources each, and a hint with
\* several keywords
C18_Witness ==
    /\ pc = "done"
    /\ call = 2
    /\ results = first_in
    /\ Len(matched) >= 2
    /\ Len(citation_overlap) = 2
    /\ \A k \in 1..Len(citation_overlap) : Len(citation_overlap[k][2]) = 2
    /\ \E h \in 1..Len(unmatched_hints) : Len(unmatched_hints[h].top_keywords) >= 2

\* C19: build_matrix and match_topics leave their arguments as they were
\* (the list of records with its citation lists and Topics through every
\* call, the map of Topic lists from the call of match_topics to its return)
\* and keep no state between calls: a call on a list, made after a call on
\* another list, returns what the call on that list returned when it was
\* made first.
C19_NoStateBetweenCalls ==
    /\ call \in {1, 3} => results = first_in
    /\ call = 2 => results \in OtherInputs
    /\ pc \in {"match_topics", "pass1", "search", "pass2", "matched"} =>
          /\ pt_keys = [k \in 1..Len(results) |-> results[k].provider]
          /\ pt = [k \in 1..Len(results) |-> results[k].topics]
    /\ (call = 3 /\ pc = "done") => Output = first_out

\* C19 witness: the third call returned a matrix with a cluster after a
\* second call on another list that had left two clusters behind
C19_Witness ==
    /\ call = 3
    /\ pc = "done"
    /\ matched # <<>>
    /\ first_out.topics # <<>>
    /\ Len(first_in) = 3

-----------------------------------------------------------------------------
(* Properties of extract_topics *)

\* the lines of the report that are a heading of depth 1 to 4: 1 to 4 '#',
\* a blank and text
HeadingLines ==
    SelectSeq([i \in 1..Len(report) |-> i],
              LAMBDA i : report[i].hashes \in 1..4 /\ report[i].words > 0)

\* C20 (as claimed): extract_topics returns the empty list for a report of
\* empty lines only; for any other report without a heading of depth 1 to 4
\* exactly one Topic with the heading '(no headings)', level 1 and the word
\* count of the whole text; otherwise exactly one Topic per heading, in the
\* order of the document, with the text of the heading and the number of its
\* '#' as level.
C20_OneTopicPerHeading ==
    (pc = "done") =>
        IF \A i \in 1..Len(report) : IsBlank(report[i])
        THEN extracted = <<>>
        ELSE IF HeadingLines = <<>>
        THEN /\ Len(extracted) = 1
             /\ extracted[1].heading = "(no headings)"
             /\ extracted[1].level = 1
             /\ extracted[1].word_count = WordsBetween(report, 0, Len(report) + 1)
        ELSE /\ Len(extracted) = Len(HeadingLines)
             /\ \A k \in 1..Len(HeadingLines) :
                   /\ extracted[k].level = report[HeadingLines[k]].hashes
                   /\ extracted[k].heading = Line(0, report[HeadingLines[k]].words)

-----------------------------------------------------------------------------
(* The similarity functions called on their own *)

\* the variables of the matrix builder, which the other programs leave alone
matrixVars ==
    <<results, bm_providers, pt_keys, pt, used, clusters, ap, ai, op, cur, i2,
      matched, stats, unmatched_hints, citation_overlap, citations, urls,
      report, extracted, call, first_in, first_out>>

\* the values of the variables of the matrix builder while it does not run
MatrixIdle ==
    /\ results = <<>>
    /\ pt_keys = <<>>
    /\ pt = <<>>
    /\ Unassigned
    /\ citations = <<>>
    /\ urls = {}
    /\ report = <<>>
    /\ extracted = <<>>
    /\ call = 1
    /\ first_in = <<>>
    /\ first_out = <<>>

\* the characters of the arguments of _jaccard_similarity
SimChars == {" ", "a", "A", "b"}

\* c.lower() of one character
LowerChar(c) == IF c = "A" THEN "a" ELSE c

\* str.lower()
Lower(str) == [k \in 1..Len(str) |-> LowerChar(str[k])]

RECURSIVE SplitFrom(_, _)
\* str.split() of the blank-free start word followed by str
SplitFrom(word, str) ==
    IF str = <<>> THEN (IF word = <<>> THEN <<>> ELSE <<word>>)
    ELSE IF str[1] = " "
    THEN (IF word = <<>> THEN <<>> ELSE <<word>>) \o SplitFrom(<<>>, Tail(str))
    ELSE SplitFrom(Append(word, str[1]), Tail(str))

\* str.split(): the list of the words of a string
Split(str) == SplitFrom(<<>>, str)

\* _jaccard_similarity(a, b) on two strings of characters
JaccardSimilarity(a, b) ==
    LET words_a == IF Strip(a) # <<>> THEN Split(Lower(a)) ELSE <<>>
        words_b == IF Strip(b) # <<>> THEN Split(Lower(b)) ELSE <<>>
    IN  JaccardHeadings(words_a, words_b)

\* a call _jaccard_similarity_sets(a, b), and the call with a and b swapped
JaccardSetsCall ==
    /\ pc = "jaccard_sets"
    /\ sim_out' = [ab |-> JaccardSets(sim_in.a, sim_in.b),
                   ba |-> JaccardSets(sim_in.b, sim_in.a)]
    /\ pc' = "done"
    /\ UNCHANGED sim_in
    /\ UNCHANGED <<matrixVars, besideSim>>

\* a call _jaccard_similarity(a, b), and the call with a and b swapped
JaccardStringsCall ==
    /\ pc = "jaccard_strings"
    /\ sim_out' = [ab |-> JaccardSimilarity(sim_in.a, sim_in.b),
                   ba |-> JaccardSimilarity(sim_in.b, sim_in.a)]
    /\ pc' = "done"
    /\ UNCHANGED sim_in
    /\ UNCHANGED <<matrixVars, besideSim>>

\* a call of either similarity function
SimInit ==
    /\ \/ /\ pc = "jaccard_sets"
          /\ \E a, b \in SUBSET (1..MaxKeywords) :
                sim_in = [kind |-> "sets", a |-> a, b |-> b]
       \/ /\ pc = "jaccard_strings"
          /\ \E n, m \in 0..MaxChars :
                \E a \in [1..n -> SimChars], b \in [1..m -> SimChars] :
                   sim_in = [kind |-> "strings", a |-> a, b |-> b]
    /\ sim_out = <<>>
    /\ MatrixIdle
    /\ FetchIdle
    /\ ValidateIdle
    /\ RequestIdle
    /\ PollIdle

SimNext ==
    \/ JaccardSetsCall
    \/ JaccardStringsCall

SimSpec == SimInit /\ [][SimNext]_vars

\* the set of lowercase whitespace-separated words of a string: the runs of
\* characters other than blanks that no such character precedes or follows
WordSetOf(str) ==
    {SubSeq(Lower(str), i, j) : <<i, j>> \in
        {ij \in (1..Len(str)) \X (1..Len(str)) :
            /\ ij[1] <= ij[2]
            /\ \A k \in ij[1]..ij[2] : str[k] # " "
            /\ ij[1] = 1 \/ str[ij[1] - 1] = " "
            /\ ij[2] = Len(str) \/ str[ij[2] + 1] = " "}}

\* the sets of which a call compares: the arguments of the set version, the
\* word sets of the arguments of the string version
SimSetA == IF sim_in.kind = "sets" THEN sim_in.a ELSE WordSetOf(sim_in.a)
SimSetB == IF sim_in.kind = "sets" THEN sim_in.b ELSE WordSetOf(sim_in.b)

\* C21: both similarity functions return 1.0 for two empty inputs and 0.0
\* when exactly one input is empty; else |A \cap B| / |A \cup B|, A and B
\* being the argument sets for the set version and the sets of lowercase
\* whitespace-separated words for the string version; the result is the same
\* with the arguments swapped, lies in [0, 1] and is 1.0 exactly when A = B.
C21_Jaccard ==
    (pc = "done" /\ sim_in # <<>>) =>
        /\ (SimSetA = {} /\ SimSetB = {}) => sim_out.ab = <<1, 1>>
        /\ ((SimSetA = {}) # (SimSetB = {})) => sim_out.ab = <<0, 1>>
        /\ (SimSetA # {} /\ SimSetB # {}) =>
              sim_out.ab = <<Cardinality(SimSetA \cap SimSetB),
                             Cardinality(SimSetA \cup SimSetB)>>
        /\ FracEQ(sim_out.ab, sim_out.ba)
        /\ sim_out.ab[2] > 0
        /\ 0 <= sim_out.ab[1] /\ sim_out.ab[1] <= sim_out.ab[2]
        /\ (sim_out.ab[1] = sim_out.ab[2]) <=> (SimSetA = SimSetB)

\* C21 witness: the string version returned 1/2 for two strings that differ
\* in case and blanks and share one of their words, neither set being empty
C21_Witness ==
    /\ pc = "done"
    /\ sim_in # <<>>
    /\ sim_in.kind = "strings"
    /\ "A" \in Range(sim_in.a)
    /\ " " \in Range(sim_in.a)
    /\ Cardinality(SimSetA) = 2
    /\ FracEQ(sim_out.ab, <<1, 2>>)

-----------------------------------------------------------------------------
(* Further properties of match_topics and build_matrix *)

\* two Topics of different providers of a cluster have the same heading string
HoldsSameHeadings(cluster) ==
    \E p, q \in PresentIn(cluster) :
        p # q /\ TopicAt(cluster, p).heading = TopicAt(cluster, q).heading

\* C22 (as claimed): a returned cluster is labelled 'exact' only if it holds
\* two Topics of different providers whose normalized heading strings are
\* identical; a cluster of several Topics that Pass 1 brought together, no
\* two of them with identical heading strings, is labelled 'heading-fuzzy'.
C22_ExactMeansIdentical ==
    Returned =>
        \A k \in 1..Len(matched) :
           /\ matched[k].match_method = "exact" => HoldsSameHeadings(Surviving[k])
           /\ ( /\ matched[k].match_method # "content-fuzzy"
                /\ Cardinality(PresentIn(Surviving[k])) >= 2
                /\ ~HoldsSameHeadings(Surviving[k]) )
                 => matched[k].match_method = "heading-fuzzy"

-----------------------------------------------------------------------------
(* batch-fetch.py: main *)

\* the most URL arguments of a run
MaxUrls == 3

\* the URLs given on the command line
UrlPool == {"http://u", "http://v"}

\* the texts a server answers with
PagePool == {"page", "other page"}

\* the error texts of fetch_url
FetchErrors == {"HTTP 503: busy", "Timeout after 30s"}

\* the most worker threads of the executor
MAX_WORKERS == 10

\* what fetch_url(url) can return: the page the server answered with, or the
\* error of the request
FetchUrl(url) ==
    { [url |-> url, success |-> TRUE, content |-> c, error |-> "None"] :
        c \in PagePool }
    \cup
    { [url |-> url, success |-> FALSE, content |-> "None", error |-> e] :
        e \in FetchErrors }

\* the position of the last result of a list for a URL
LastFor(rs, url) ==
    CHOOSE k \in 1..Len(rs) :
        /\ rs[k].url = url
        /\ \A j \in (k + 1)..Len(rs) : rs[j].url # url

\* url_to_result = {r["url"]: r for r in results}, then url_to_result[url]
UrlToResult(rs, url) == rs[LastFor(rs, url)]

\* ordered_results = [url_to_result[url] for url in urls]
OrderedResults(rs, us) == [k \in 1..Len(us) |-> UrlToResult(rs, us[k])]

\* len(sys.argv) < 2: the usage error is printed, exit status 1
BatchUsage ==
    /\ pc = "batch_fetch"
    /\ bf_urls = <<>>
    /\ pc' = "exit1"
    /\ UNCHANGED fetchVars
    /\ UNCHANGED <<matrixVars, besideFetch>>

\* a free worker thread of the executor takes the oldest submitted fetch
FetchStart ==
    /\ pc = "batch_fetch"
    /\ bf_pending # {}
    /\ Cardinality(bf_running) <
          (IF MAX_WORKERS < Len(bf_urls) THEN MAX_WORKERS ELSE Len(bf_urls))
    /\ LET k == CHOOSE k \in bf_pending : \A j \in bf_pending : k <= j
       IN  /\ bf_pending' = bf_pending \ {k}
           /\ bf_running' = bf_running \cup {k}
    /\ UNCHANGED <<pc, bf_urls, bf_fetched, bf_results, bf_output>>
    /\ UNCHANGED <<matrixVars, besideFetch>>

\* a fetch completes, in any order, and as_completed hands its result to main
FetchComplete ==
    /\ pc = "batch_fetch"
    /\ \E k \in bf_running :
          \E r \in FetchUrl(bf_urls[k]) :
             /\ bf_running' = bf_running \ {k}
             /\ bf_fetched' = [bf_fetched EXCEPT ![k] = r]
             /\ bf_results' = Append(bf_results, r)
    /\ UNCHANGED <<pc, bf_urls, bf_pending, bf_output>>
    /\ UNCHANGED <<matrixVars, besideFetch>>

\* all fetches completed: the results are put in the order of the arguments
\* and printed, exit status 0
BatchOutput ==
    /\ pc = "batch_fetch"
    /\ bf_urls # <<>>
    /\ bf_pending = {}
    /\ bf_running = {}
    /\ bf_output' = OrderedResults(bf_results, bf_urls)
    /\ pc' = "exit0"
    /\ UNCHANGED <<bf_urls, bf_pending, bf_running, bf_fetched, bf_results>>
    /\ UNCHANGED <<matrixVars, besideFetch>>

\* a run of batch-fetch.py; every argument is submitted to the executor
FetchInit ==
    /\ pc = "batch_fetch"
    /\ \E n \in 0..MaxUrls :
          /\ bf_urls \in [1..n -> UrlPool]
          /\ bf_pending = 1..n
          /\ bf_fetched = [k \in 1..n |-> <<>>]
    /\ bf_running = {}
    /\ bf_results = <<>>
    /\ bf_output = <<>>
    /\ MatrixIdle
    /\ SimIdle
    /\ ValidateIdle
    /\ RequestIdle
    /\ PollIdle

FetchNext ==
    \/ BatchUsage
    \/ FetchStart
    \/ FetchComplete
    \/ BatchOutput

FetchSpec == FetchInit /\ [][FetchNext]_vars

\* C23 (as claimed): whatever the arguments and the order of completion, the
\* output has one result per argument, the i-th with the i-th argument as
\* url, and each result has the success, the content and the error of the
\* fetch of its own argument: a failed fetch shows as success false with an
\* error text, and no other fetch changes it.
C23_OwnResultInOrder ==
    pc = "exit0" =>
        /\ Len(bf_output) = Len(bf_urls)
        /\ \A k \in 1..Len(bf_urls) :
              /\ bf_output[k].url = bf_urls[k]
              /\ bf_output[k] = bf_fetched[k]
              /\ ~bf_fetched[k].success =>
                    /\ ~bf_output[k].success
                    /\ bf_output[k].error # "None"

-----------------------------------------------------------------------------
(* validate.py: validate_citations *)

\* the most citations of the results of a call, a leading string citation
\* not counted
MaxCites == 1

\* a URL that _resolve_redirects resolves
GroundingUrl == "https://vertexaisearch.cloud.google.com/grounding-api-redirect/x"

\* the URLs of the citations; "None" stands for None and for a missing key
CiteUrls == {"None", "", "http://u", GroundingUrl}

\* where a redirect can lead; "" stands for a response without url
FinalUrls == {"", "http://final"}

\* `not url`
NoUrl(url) == url \in {"None", ""}

\* the words of more than three characters (len(w) > 3) among those of the
\* titles and contexts used; a URL holds the word http or https
LongWords == {"example", "report", "http://u", GroundingUrl}

\* [w for w in re.findall(r'\w+', text) if len(w) > 3] is not empty
HasLongWords(text) == \E k \in 1..Len(text) : text[k] \in LongWords

\* a citation without "validation" key
NoValidation == [status |-> "absent", depth |-> 0, details |-> <<>>]

\* a citation that is a dict
DictCitation(url, title) ==
    [kind |-> "dict", url |-> url, title |-> title,
     validation |-> NoValidation, resolved_url |-> "absent"]

\* a citation that is a string
StrCitation ==
    [kind |-> "str", url |-> "http://u", title |-> <<>>,
     validation |-> NoValidation, resolved_url |-> "absent"]

\* the citations of the inputs
ValidatePool ==
    { StrCitation,
      DictCitation("None", <<"example", "report">>),
      DictCitation("", <<>>),
      DictCitation("http://u", <<>>),
      DictCitation("http://u", <<"example", "report">>),
      DictCitation("http://u", <<"q", "a">>),
      DictCitation(GroundingUrl, <<>>) }

\* the reports of the inputs: the URLs and the footnote markers [N] they hold
ReportTexts ==
    { [urls |-> {}, notes |-> {}],
      [urls |-> {"http://u"}, notes |-> {}],
      [urls |-> {}, notes |-> {1, 2}] }

\* what urlopen can do: answer with a status, or raise HTTPError, URLError
\* or another exception (TimeoutError, ValueError, ...)
UrlOpen ==
    { [kind |-> "response", code |-> c] : c \in {200, 404} }
    \cup { [kind |-> "http_error", code |-> c] : c \in {404, 405, 501} }
    \cup { [kind |-> "url_error", code |-> 0],
           [kind |-> "exception", code |-> 0] }

\* 200 <= status_code < 400
Alive(code) == 200 <= code /\ code < 400

\* what a validator returns, with the requests it sent
Validation(status, details, requests) ==
    [status |-> status, details |-> details, requests |-> requests]

\* _validate_url_liveness_get(url) when urlopen does o
LivenessGetOf(o) ==
    IF o.kind \in {"response", "http_error"}
    THEN Validation(IF Alive(o.code) THEN "valid" ELSE "invalid",
                    <<"HTTP", o.code, "(GET fallback)">>, <<"GET">>)
    ELSE Validation("unreachable",
                    IF o.kind = "url_error" THEN <<"URLError">>
                                            ELSE <<"Exception">>,
                    <<"GET">>)

\* _validate_url_liveness_get(url): every outcome
ValidateUrlLivenessGet == { LivenessGetOf(o) : o \in UrlOpen }

\* _validate_url_liveness(url): every outcome
ValidateUrlLiveness ==
    UNION { IF o.kind = "http_error" /\ o.code \in {405, 501}
            THEN { [v EXCEPT !.requests = <<"HEAD">> \o v.requests] :
                      v \in ValidateUrlLivenessGet }
            ELSE IF o.kind \in {"response", "http_error"}
            THEN { Validation(IF Alive(o.code) THEN "valid" ELSE "invalid",
                              <<"HTTP", o.code>>, <<"HEAD">>) }
            ELSE { Validation("unreachable",
                              IF o.kind = "url_error" THEN <<"URLError">>
                                                      ELSE <<"Exception">>,
                              <<"HEAD">>) }
          : o \in UrlOpen }

\* the except clauses shared by _validate_url_relevance and
\* _validate_url_cross_reference, and the status check after the fetch
FetchFailed(o) ==
    IF o.kind = "response" \/ o.kind = "http_error"
    THEN Validation("invalid", <<"HTTP", o.code>>, <<"GET">>)
    ELSE Validation("unreachable",
                    IF o.kind = "url_error" THEN <<"URLError">>
                                            ELSE <<"Exception">>,
                    <<"GET">>)

\* _validate_url_relevance(url, citation_title): every outcome. phrase: the
\* title is in the page; half: at least half of its long words are
ValidateUrlRelevance(citation_title) ==
    { IF o.kind = "response" /\ Alive(o.code)
      THEN IF citation_title # <<>>
           THEN IF phrase
                THEN Validation("valid", <<"Citation title found in page">>,
                                <<"GET">>)
                ELSE IF HasLongWords(citation_title) /\ half
                THEN Validation("valid", <<"Keywords found">>, <<"GET">>)
                ELSE Validation("invalid",
                                <<"Citation title not found in page">>,
                                <<"GET">>)
           ELSE Validation("valid", <<"Page reachable (no title to verify)">>,
                           <<"GET">>)
      ELSE FetchFailed(o)
    : o \in UrlOpen, phrase \in BOOLEAN, half \in BOOLEAN }

\* _validate_url_cross_reference(url, claim, citation_title): every outcome.
\* most: at least 60% of the long words of the claim are in the page
ValidateUrlCrossReference(claim, citation_title) ==
    { IF o.kind = "response" /\ Alive(o.code)
      THEN IF claim # <<>> /\ HasLongWords(claim)
           THEN IF most
                THEN Validation("valid", <<"Claim keywords found">>, <<"GET">>)
                ELSE Validation("invalid", <<"Insufficient claim support">>,
                                <<"GET">>)
           ELSE IF citation_title # <<>>
           THEN IF phrase
                THEN Validation("valid", <<"Citation title found in page">>,
                                <<"GET">>)
                ELSE IF HasLongWords(citation_title) /\ half
                THEN Validation("valid", <<"Title keywords found">>, <<"GET">>)
                ELSE Validation("invalid", <<"Citation not verified in page">>,
                                <<"GET">>)
           ELSE Validation("valid", <<"Page reachable (no claim to verify)">>,
                           <<"GET">>)
      ELSE FetchFailed(o)
    : o \in UrlOpen, most \in BOOLEAN, phrase \in BOOLEAN, half \in BOOLEAN }

\* _extract_claim_context(report, url, citation_index): the sentences around
\* the URL, else around the footnote marker, else nothing
ExtractClaimContext(report_text, url, citation_index) ==
    IF url \in report_text.urls THEN <<"see", url>>
    ELSE IF (citation_index + 1) \in report_text.notes THEN <<"see", "[N]">>
    ELSE <<>>

\* final_url if final_url else url
FinalOr(final, url) == IF final # "" THEN final ELSE url

\* _resolve_redirects(url): every outcome, with the requests sent
ResolveRedirects(url) ==
    IF url # GroundingUrl
    THEN { [url |-> url, requests |-> <<>>] }
    ELSE UNION {
           IF o.kind = "response"
           THEN { [url |-> FinalOr(f, url), requests |-> <<"HEAD">>] :
                     f \in FinalUrls }
           ELSE IF o.kind = "http_error" /\ o.code \in {405, 501}
           THEN UNION {
                  IF o2.kind = "response"
                  THEN { [url |-> FinalOr(f, url),
                          requests |-> <<"HEAD", "GET">>] : f \in FinalUrls }
                  ELSE { [url |-> url, requests |-> <<"HEAD", "GET">>] }
                  : o2 \in UrlOpen }
           ELSE { [url |-> url, requests |-> <<"HEAD">>] }
           : o \in UrlOpen }

\* the validator of a depth, every outcome; report_text and citation_index
\* give the context of the URL
ValidateAt(depth, citation, report_text, citation_index) ==
    IF depth = 1 THEN ValidateUrlLiveness
    ELSE IF depth = 2
    THEN ValidateUrlRelevance(
            IF citation.title = <<>>
            THEN ExtractClaimContext(report_text, citation.url, citation_index)
            ELSE citation.title)
    ELSE IF depth = 3
    THEN ValidateUrlCrossReference(
            ExtractClaimContext(report_text, citation.url, citation_index),
            citation.title)
    ELSE { Validation("skipped", <<"Invalid depth">>, <<>>) }

\* the citations of a result, None when the result gives none
CitationsOf(result) ==
    IF result.kind \in {"object", "dict"} THEN result.citations ELSE <<>>

\* the requests of a validator, as sent for a citation
Sent(requests) ==
    [k \in 1..Len(requests) |->
        [result |-> vc_ri, citation |-> vc_ci, method |-> requests[k]]]

\* the loops of validate_citations still run
Validating ==
    /\ pc = "validate_citations"
    /\ vc_depth # 0

\* there is a citation at the position reached
AtCitation ==
    /\ Validating
    /\ vc_ri <= Len(vc_results)
    /\ vc_ci <= Len(CitationsOf(vc_results[vc_ri]))

CurCitation == CitationsOf(vc_results[vc_ri])[vc_ci]

\* if depth == 0: return results
ValidateDepthZero ==
    /\ pc = "validate_citations"
    /\ vc_depth = 0
    /\ pc' = "returned"
    /\ UNCHANGED validateVars
    /\ UNCHANGED <<matrixVars, besideValidate>>

\* a result without citations is passed over, and so is a finished result
ValidateNextResult ==
    /\ Validating
    /\ vc_ri <= Len(vc_results)
    /\ vc_ci > Len(CitationsOf(vc_results[vc_ri]))
    /\ vc_ri' = vc_ri + 1
    /\ vc_ci' = 1
    /\ UNCHANGED <<pc, vc_depth, vc_results, vc_requests>>
    /\ UNCHANGED <<matrixVars, besideValidate>>

\* if not isinstance(citation, dict): continue
ValidateSkipCitation ==
    /\ AtCitation
    /\ CurCitation.kind # "dict"
    /\ vc_ci' = vc_ci + 1
    /\ UNCHANGED <<pc, vc_depth, vc_results, vc_ri, vc_requests>>
    /\ UNCHANGED <<matrixVars, besideValidate>>

\* a citation without URL passed over like one that is not a dict
ValidateNoUrlUnmarked ==
    /\ AtCitation
    /\ CurCitation.kind = "dict"
    /\ NoUrl(CurCitation.url)
    /\ vc_ci' = vc_ci + 1
    /\ UNCHANGED <<pc, vc_depth, vc_results, vc_ri, vc_requests>>
    /\ UNCHANGED <<matrixVars, besideValidate>>

\* if not url: the citation is marked skipped
ValidateNoUrl ==
    /\ AtCitation
    /\ CurCitation.kind = "dict"
    /\ NoUrl(CurCitation.url)
    /\ vc_results' =
          [vc_results EXCEPT ![vc_ri].citations[vc_ci].validation =
              [status |-> "skipped", depth |-> vc_depth,
               details |-> <<"No URL">>]]
    /\ vc_ci' = vc_ci + 1
    /\ UNCHANGED <<pc, vc_depth, vc_ri, vc_requests>>
    /\ UNCHANGED <<matrixVars, besideValidate>>

\* the redirect is resolved, the validator of the depth runs and its answer
\* is stored in the citation
ValidateCitation ==
    /\ AtCitation
    /\ CurCitation.kind = "dict"
    /\ ~NoUrl(CurCitation.url)
    /\ \E resolved \in ResolveRedirects(CurCitation.url) :
          \E validation \in ValidateAt(vc_depth, CurCitation,
                                       vc_results[vc_ri].report, vc_ci - 1) :
             /\ vc_results' =
                   [vc_results EXCEPT
                      ![vc_ri].citations[vc_ci].resolved_url =
                          IF resolved.url # CurCitation.url
                          THEN resolved.url ELSE @,
                      ![vc_ri].citations[vc_ci].validation =
                          [status |-> validation.status, depth |-> vc_depth,
                           details |-> validation.details]]
             /\ vc_requests' = vc_requests \o Sent(resolved.requests)
                                           \o Sent(validation.requests)
    /\ vc_ci' = vc_ci + 1
    /\ UNCHANGED <<pc, vc_depth, vc_ri>>
    /\ UNCHANGED <<matrixVars, besideValidate>>

\* return results
ValidateReturn ==
    /\ Validating
    /\ vc_ri > Len(vc_results)
    /\ pc' = "returned"
    /\ UNCHANGED validateVars
    /\ UNCHANGED <<matrixVars, besideValidate>>

\* a result of the input: a ProviderResult object, a dict, or something else
ValidateResult(kind, cits, report_text) ==
    [kind |-> kind, citations |-> cits, report |-> report_text]

\* a call validate_citations(results, depth) on two results that share the
\* citations at any place
ValidateInit ==
    /\ pc = "validate_citations"
    /\ vc_depth \in 0..3
    /\ \E n \in 0..MaxCites, lead \in {<<>>, <<StrCitation>>} :
          \E rest \in [1..n -> ValidatePool] :
             \E k \in 0..(Len(lead) + n), report_text \in ReportTexts :
                \E kind \in {"object", "dict", "other"} :
                   LET cits == lead \o rest
                   IN  /\ kind = "other" => k = 0
                       /\ vc_results =
                            <<ValidateResult(kind, SubSeq(cits, 1, k),
                                             report_text),
                              ValidateResult("dict",
                                             SubSeq(cits, k + 1, Len(cits)),
                                             report_text)>>
    /\ vc_ri = 1
    /\ vc_ci = 1
    /\ vc_requests = <<>>
    /\ MatrixIdle
    /\ SimIdle
    /\ FetchIdle
    /\ RequestIdle
    /\ PollIdle

ValidateNext ==
    \/ ValidateDepthZero
    \/ ValidateNextResult
    \/ ValidateSkipCitation
    \/ ValidateNoUrl
    \/ ValidateCitation
    \/ ValidateReturn

ValidateSpec == ValidateInit /\ [][ValidateNext]_vars

\* every citation of the results that is a dict, by position
DictCitations ==
    { rc \in (1..Len(vc_results)) \X (1..(MaxCites + 1)) :
         /\ rc[2] <= Len(CitationsOf(vc_results[rc[1]]))
         /\ CitationsOf(vc_results[rc[1]])[rc[2]].kind = "dict" }

\* the requests sent for the citation at a position
RequestsFor(rc) ==
    { k \in 1..Len(vc_requests) :
         vc_requests[k].result = rc[1] /\ vc_requests[k].citation = rc[2] }

\* C24: with depth 0, validate_citations returns with no citation changed and
\* no request sent. With depth 1, 2 or 3 it returns, whatever urlopen did,
\* with every dict citation holding a validation of the requested depth and
\* of status valid, invalid, unreachable or skipped; a citation without URL
\* has status skipped and details 'No URL' and no request was sent for it; a
\* citation that is not a dict is as it was.
C24_ValidationRecords ==
    pc = "returned" =>
        /\ vc_depth = 0 =>
              /\ vc_requests = <<>>
              /\ \A r \in 1..Len(vc_results) :
                    \A c \in 1..Len(vc_results[r].citations) :
                       /\ vc_results[r].citations[c].validation = NoValidation
                       /\ vc_results[r].citations[c].resolved_url = "absent"
        /\ vc_depth # 0 =>
              \A r \in 1..Len(vc_results) :
                 \A c \in 1..Len(CitationsOf(vc_results[r])) :
                    LET citation == vc_results[r].citations[c]
                    IN  IF citation.kind = "dict"
                        THEN /\ citation.validation.depth = vc_depth
                             /\ citation.validation.status \in
                                   {"valid", "invalid", "unreachable",
                                    "skipped"}
                             /\ NoUrl(citation.url) =>
                                   /\ citation.validation.status = "skipped"
                                   /\ citation.validation.details = <<"No URL">>
                                   /\ RequestsFor(<<r, c>>) = {}
                        ELSE citation = StrCitation

\* a call of depth 2 has returned: a string citation was passed over, and a
\* citation without URL and one with a URL were validated
C24_Witness ==
    /\ pc = "returned"
    /\ vc_depth = 2
    /\ \E r \in 1..Len(vc_results) :
          \E c \in 1..Len(vc_results[r].citations) :
             vc_results[r].citations[c].kind = "str"
    /\ \E rc \in DictCitations :
          vc_results[rc[1]].citations[rc[2]].validation.status = "unreachable"

\* the returned clusters k and m are both labelled 'unmatched' and hold
\* Topics of two different providers; with needKeywords, both Topics have
\* keywords
UnmatchedPair(k, m, needKeywords) ==
    /\ k # m
    /\ matched[k].match_method = "unmatched"
    /\ matched[m].match_method = "unmatched"
    /\ AnchorOf(Surviving[k]) # AnchorOf(Surviving[m])
    /\ needKeywords =>
          /\ AnchorTopic(Surviving[k]).body_keywords # {}
          /\ AnchorTopic(Surviving[m]).body_keywords # {}

\* no pair of returned 'unmatched' clusters of different providers has
\* keyword sets of similarity 0.30 or more
NoMergeablePair(needKeywords) ==
    Returned =>
        \A k, m \in 1..Len(matched) :
           UnmatchedPair(k, m, needKeywords) =>
              ~FracGE(JaccardSets(AnchorTopic(Surviving[k]).body_keywords,
                                  AnchorTopic(Surviving[m]).body_keywords),
                      CONTENT_MATCH_THRESHOLD)

\* C25 (as claimed): after match_topics no two returned clusters are both
\* 'unmatched', of different providers, and with keyword sets of Jaccard
\* similarity at least 0.30, two empty keyword sets having similarity 1.0.
C25_NoMergeablePairAsClaimed == NoMergeablePair(FALSE)

\* C25 (amended): after match_topics no two returned clusters are both
\* 'unmatched', of different providers, each with at least one keyword, and
\* with keyword sets of Jaccard similarity at least 0.30.
C25_NoMergeablePair == NoMergeablePair(TRUE)

\* C25 witness: a returned 'unmatched' cluster with keywords stands beside a
\* 'content-fuzzy' cluster holding a Topic of another provider whose keyword
\* set has similarity 0.30 or more with its own: that Topic was merged with
\* a better or earlier partner
C25_Witness ==
    /\ pc = "matched"
    /\ \E k, m \in 1..Len(matched) :
          /\ matched[k].match_method = "unmatched"
          /\ AnchorTopic(Surviving[k]).body_keywords # {}
          /\ matched[m].match_method = "content-fuzzy"
          /\ \E p \in PresentIn(Surviving[m]) :
                /\ p # AnchorOf(Surviving[k])
                /\ FracGE(JaccardSets(AnchorTopic(Surviving[k]).body_keywords,
                                      TopicAt(Surviving[m], p).body_keywords),
                          CONTENT_MATCH_THRESHOLD)

-----------------------------------------------------------------------------
(* http.py: request *)

\* the most attempts a caller asks for
MaxRetries == 3

RETRY_BASE_DELAY == 2
RETRY_429_BASE_DELAY == 5
RETRY_MAX_DELAY == 60

\* the Retry-After header of an error response: absent or not a number, or
\* a number
RetryAfterPool ==
    { [given |-> FALSE, value |-> 0],
      [given |-> TRUE, value |-> 2],
      [given |-> TRUE, value |-> -1] }

\* what urlopen and the reading of the body can do at one attempt: a body
\* (JSON text, nothing, text that is no JSON, bytes that are no UTF-8), an
\* HTTPError with its code and Retry-After header, a URLError, an OSError
\* (timeout, reset connection), or an http.client exception (IncompleteRead,
\* BadStatusLine), which is none of these
AttemptOutcomes ==
    { [kind |-> "body", body |-> b, code |-> 200,
       retry_after |-> [given |-> FALSE, value |-> 0]] :
          b \in {"json", "empty", "bad_json", "bad_utf8"} }
    \cup
    { [kind |-> "http_error", body |-> "empty", code |-> c, retry_after |-> ra] :
          c \in {404, 429, 503}, ra \in RetryAfterPool }
    \cup
    { [kind |-> k, body |-> "empty", code |-> 0,
       retry_after |-> [given |-> FALSE, value |-> 0]] :
          k \in {"url_error", "os_error", "http_exception"} }

\* the two values of random.random() looked at: 0 and 1/2
RandomPool == {ZERO, <<1, 2>>}

\* _get_retry_delay(attempt, is_rate_limit, retry_after) in seconds, as a
\* fraction; random is the value of random.random()
GetRetryDelay(attempt, is_rate_limit, retry_after, random) ==
    IF retry_after.given
    THEN <<IF retry_after.value < RETRY_MAX_DELAY THEN retry_after.value
                                                  ELSE RETRY_MAX_DELAY, 1>>
    ELSE LET base == IF is_rate_limit THEN RETRY_429_BASE_DELAY
                                      ELSE RETRY_BASE_DELAY
             raw == base * (2 ^ attempt)
             delay == IF raw < RETRY_MAX_DELAY THEN raw ELSE RETRY_MAX_DELAY
         IN  \* delay + delay * 0.25 * random
             <<delay * 4 * random[2] + delay * random[1], 4 * random[2]>>

\* HTTPError(message, status_code)
HTTPError(message, status_code) ==
    [type |-> "HTTPError", message |-> message, status_code |-> status_code]

\* an exception that is no HTTPError
OtherError(type) == [type |-> type, message |-> "", status_code |-> 0]

\* the record of an attempt
Attempt(o) == [kind |-> "attempt", outcome |-> o, delay |-> ZERO]

\* the record of a time.sleep(delay)
Sleep(delay) ==
    [kind |-> "sleep",
     outcome |-> [kind |-> "none", body |-> "empty", code |-> 0,
                  retry_after |-> [given |-> FALSE, value |-> 0]],
     delay |-> delay]

\* the call returns
RequestReturns(o) ==
    /\ rq_events' = Append(rq_events, Attempt(o))
    /\ rq_result' = [kind |-> "returned", error |-> <<>>]
    /\ pc' = "returned"
    /\ UNCHANGED <<rq_retries, rq_attempt, rq_last_error>>

\* the call raises error out of the attempt; last_error as given
RequestRaises(o, error, last_error) ==
    /\ rq_events' = Append(rq_events, Attempt(o))
    /\ rq_result' = [kind |-> "raised", error |-> error]
    /\ rq_last_error' = last_error
    /\ pc' = "raised"
    /\ UNCHANGED <<rq_retries, rq_attempt>>

\* the error of the attempt is kept; unless the attempt was the last one the
\* delay is slept, and time.sleep raises ValueError on a negative delay
RequestRetries(o, error, delay) ==
    IF rq_attempt < rq_retries - 1 /\ delay[1] < 0
    THEN RequestRaises(o, OtherError("ValueError"), error)
    ELSE /\ rq_events' =
               IF rq_attempt < rq_retries - 1
               THEN rq_events \o <<Attempt(o), Sleep(delay)>>
               ELSE Append(rq_events, Attempt(o))
         /\ rq_last_error' = error
         /\ rq_attempt' = rq_attempt + 1
         /\ UNCHANGED <<pc, rq_retries, rq_result>>

\* one iteration of "for attempt in range(retries)"
RequestAttempt ==
    /\ pc = "request"
    /\ rq_attempt < rq_retries
    /\ \E o \in AttemptOutcomes, random \in RandomPool :
          CASE o.kind = "body" /\ o.body \in {"json", "empty"} ->
                  RequestReturns(o)
            [] o.kind = "body" /\ o.body = "bad_utf8" ->
                  RequestRaises(o, OtherError("UnicodeDecodeError"),
                                rq_last_error)
            [] o.kind = "body" /\ o.body = "bad_json" ->
                  RequestRaises(o, HTTPError("Invalid JSON response", 0),
                                HTTPError("Invalid JSON response", 0))
            [] o.kind = "http_error" ->
                  IF 400 <= o.code /\ o.code < 500 /\ o.code # 429
                  THEN RequestRaises(o, HTTPError("HTTP", o.code),
                                     HTTPError("HTTP", o.code))
                  ELSE RequestRetries(o, HTTPError("HTTP", o.code),
                          GetRetryDelay(rq_attempt, o.code = 429,
                                        o.retry_after, random))
            [] o.kind = "url_error" ->
                  RequestRetries(o, HTTPError("URL Error", 0),
                     GetRetryDelay(rq_attempt, FALSE,
                                   [given |-> FALSE, value |-> 0], random))
            [] o.kind = "os_error" ->
                  RequestRetries(o, HTTPError("Connection error", 0),
                     GetRetryDelay(rq_attempt, FALSE,
                                   [given |-> FALSE, value |-> 0], random))
            [] o.kind = "http_exception" ->
                  RequestRaises(o, OtherError("IncompleteRead"),
                                rq_last_error)
    /\ UNCHANGED <<matrixVars, besideRequest>>

\* the loop is over: last_error is raised, or the error without details
RequestGivesUp ==
    /\ pc = "request"
    /\ rq_attempt >= rq_retries
    /\ rq_result' =
          [kind |-> "raised",
           error |-> IF rq_last_error # <<>> THEN rq_last_error
                     ELSE HTTPError("Request failed with no error details", 0)]
    /\ pc' = "raised"
    /\ UNCHANGED <<rq_retries, rq_attempt, rq_events, rq_last_error>>
    /\ UNCHANGED <<matrixVars, besideRequest>>

\* a call request(method, url, retries=...)
RequestInit ==
    /\ pc = "request"
    /\ rq_retries \in 0..MaxRetries
    /\ rq_attempt = 0
    /\ rq_events = <<>>
    /\ rq_last_error = <<>>
    /\ rq_result = <<>>
    /\ MatrixIdle
    /\ SimIdle
    /\ FetchIdle
    /\ ValidateIdle
    /\ PollIdle

RequestNext ==
    \/ RequestAttempt
    \/ RequestGivesUp

RequestSpec == RequestInit /\ [][RequestNext]_vars

\* the positions of the attempts among the events
AttemptsMade == {k \in 1..Len(rq_events) : rq_events[k].kind = "attempt"}

\* the number of the attempt at position k, from 1
AttemptNo(k) == Cardinality({j \in AttemptsMade : j <= k})

\* the attempt ended in an error that the claim has retried
Retried(o) ==
    \/ o.kind = "http_error" /\ (o.code = 429 \/ o.code >= 500)
    \/ o.kind \in {"url_error", "os_error"}

\* the attempt ended in an error that the claim has raised at once
RaisedAtOnce(o) ==
    \/ o.kind = "http_error" /\ 400 <= o.code /\ o.code < 500 /\ o.code # 429
    \/ o.kind = "body" /\ o.body \in {"bad_json", "bad_utf8"}

\* the HTTPError made of the outcome of an attempt
ErrorOf(o) ==
    CASE o.kind = "http_error" -> HTTPError("HTTP", o.code)
      [] o.kind = "url_error" -> HTTPError("URL Error", 0)
      [] o.kind = "os_error" -> HTTPError("Connection error", 0)
      [] OTHER -> HTTPError("Invalid JSON response", 0)

\* C26 (as claimed): a call of request that has ended made at most `retries`
\* attempts; an attempt that got a body of JSON text (or no body) is the last
\* event and the call returned; an attempt that got HTTP 4xx other than 429,
\* or a body that is no JSON, is the last event and the call raised
\* HTTPError; an attempt that got HTTP 429, HTTP 5xx, a URL error or a
\* connection error is followed by a sleep and a new attempt unless it is
\* attempt number `retries`, which is the last event, the call raising the
\* HTTPError of that attempt.
C26_RetryRule ==
    pc \in {"returned", "raised"} /\ rq_result # <<>> =>
        /\ Cardinality(AttemptsMade) <= rq_retries
        /\ \A k \in AttemptsMade :
              LET o == rq_events[k].outcome
              IN  /\ (o.kind = "body" /\ o.body \in {"json", "empty"}) =>
                        /\ k = Len(rq_events)
                        /\ rq_result.kind = "returned"
                  /\ RaisedAtOnce(o) =>
                        /\ k = Len(rq_events)
                        /\ rq_result.kind = "raised"
                        /\ rq_result.error.type = "HTTPError"
                  /\ (Retried(o) /\ AttemptNo(k) < rq_retries) =>
                        /\ k + 2 <= Len(rq_events)
                        /\ rq_events[k + 1].kind = "sleep"
                        /\ rq_events[k + 2].kind = "attempt"
                  /\ (Retried(o) /\ AttemptNo(k) = rq_retries) =>
                        /\ k = Len(rq_events)
                        /\ rq_result.kind = "raised"
                        /\ rq_result.error = ErrorOf(o)

-----------------------------------------------------------------------------
(* openai_dr.py: _poll_response *)

MAX_POLL_ATTEMPTS == 60

\* the statuses of a polled response: the two terminal ones, the three known
\* ones, one the client does not know, and "" for a response without status
PollStatuses ==
    {"completed", "failed", "queued", "in_progress", "searching",
     "cancelled", ""}

\* what http.get can do at a poll: return a dict with a status, return JSON
\* that is no dict, or raise
GetOutcomes ==
    { [kind |-> "dict", status |-> st] : st \in PollStatuses }
    \cup { [kind |-> "not_dict", status |-> ""],
           [kind |-> "raises", status |-> ""] }

\* the call ends
PollEnds(kind, what) ==
    /\ pl_result' = [kind |-> kind, what |-> what]
    /\ pc' = kind

\* PollStep with a return of the response on every status but 'failed'
PollStepReturnsUnknown ==
    /\ pc = "poll_response"
    /\ pl_attempt < MAX_POLL_ATTEMPTS
    /\ pl_attempt' = pl_attempt + 1
    /\ \E r \in GetOutcomes :
          /\ pl_seen' = IF r.kind = "dict" THEN pl_seen \cup {r.status}
                                           ELSE pl_seen
          /\ CASE r.kind = "raises" -> PollEnds("raised", "HTTPError")
               [] r.kind = "not_dict" -> PollEnds("raised", "AttributeError")
               [] r.kind = "dict" /\ r.status = "failed" ->
                     PollEnds("raised", "HTTPError: failed")
               [] r.kind = "dict" /\ r.status \in
                                        {"queued", "in_progress", "searching"} ->
                     UNCHANGED <<pc, pl_result>>
               [] OTHER -> PollEnds("returned", r.status)
    /\ UNCHANGED <<matrixVars, besidePoll>>

\* one iteration of "for attempt in range(MAX_POLL_ATTEMPTS)": a poll, and
\* the sleep of POLL_INTERVAL when the status is not terminal
PollStep ==
    /\ pc = "poll_response"
    /\ pl_attempt < MAX_POLL_ATTEMPTS
    /\ pl_attempt' = pl_attempt + 1
    /\ \E r \in GetOutcomes :
          /\ pl_seen' = IF r.kind = "dict" THEN pl_seen \cup {r.status}
                                           ELSE pl_seen
          /\ CASE r.kind = "raises" -> PollEnds("raised", "HTTPError")
               [] r.kind = "not_dict" -> PollEnds("raised", "AttributeError")
               [] r.kind = "dict" /\ r.status = "completed" ->
                     PollEnds("returned", r.status)
               [] r.kind = "dict" /\ r.status = "failed" ->
                     PollEnds("raised", "HTTPError: failed")
               [] OTHER -> UNCHANGED <<pc, pl_result>>
    /\ UNCHANGED <<matrixVars, besidePoll>>

\* the loop is over: the timeout is raised
PollTimeout ==
    /\ pc = "poll_response"
    /\ pl_attempt >= MAX_POLL_ATTEMPTS
    /\ PollEnds("raised", "HTTPError: timed out")
    /\ UNCHANGED <<pl_attempt, pl_seen>>
    /\ UNCHANGED <<matrixVars, besidePoll>>

\* a call _poll_response(api_key, response_id)
PollInit ==
    /\ pc = "poll_response"
    /\ pl_attempt = 0
    /\ pl_seen = {}
    /\ pl_result = <<>>
    /\ MatrixIdle
    /\ SimIdle
    /\ FetchIdle
    /\ ValidateIdle
    /\ RequestIdle

PollNext ==
    \/ PollStep
    \/ PollTimeout

PollSpec == PollInit /\ [][PollNext]_vars

\* the loop is sequential code: every http.get ends (timeout of 30 s, a
\* bounded number of retries) and every sleep ends, so the call goes on
\* while it has a step to take
PollFairSpec == PollSpec /\ WF_vars(PollNext)

\* the call has ended
PollEnded == pc \in {"returned", "raised"} /\ pl_result # <<>>

\* what holds of the polls at every moment of a call
PollRule ==
    /\ pl_attempt <= MAX_POLL_ATTEMPTS
    /\ (pc = "poll_response" /\ pl_result = <<>>) =>
          pl_seen \cap {"completed", "failed"} = {}
    /\ (PollEnded /\ pl_result.kind = "returned") =>
          pl_result.what = "completed"
    /\ (PollEnded /\ "failed" \in pl_seen) =>
          /\ pl_result.kind = "raised"
          /\ pl_result.what = "HTTPError: failed"
    /\ (PollEnded /\ pl_result.what = "HTTPError: timed out") =>
          /\ pl_attempt = MAX_POLL_ATTEMPTS
          /\ pl_seen \cap {"completed", "failed"} = {}

\* C27: _poll_response ends, after 60 polls at most; it returns only a
\* response of status 'completed'; a poll of status 'failed' is the last one
\* and HTTPError is raised; while the call runs every status polled so far
\* was another one; the timeout is raised only after 60 polls, none of
\* status 'completed' or 'failed'.
C27_PollTerminates == []PollRule /\ <>PollEnded

\* the timeout was raised after 60 polls that saw a known status, an unknown
\* one and a response without status
C27_Witness ==
    /\ PollEnded
    /\ pl_result.what = "HTTPError: timed out"
    /\ pl_attempt = MAX_POLL_ATTEMPTS
    /\ {"queued", "cancelled", ""} \subseteq pl_seen

-----------------------------------------------------------------------------
(* build_matrix: agreement and match method *)

\* C28: in every output of build_matrix the agreement of a cluster starts
\* with 'unique-' exactly when its match_method is 'unmatched', and exactly
\* when its coverage has a single provider that is not 'absent'; so there are
\* as many unmatched_hints as stats.unique says.
C28_UniqueIffUnmatched ==
    pc = "done" =>
        /\ \A k \in 1..Len(matched) :
              /\ (matched[k].agreement_level[1] = "unique")
                    <=> (matched[k].match_method = "unmatched")
              /\ (matched[k].match_method = "unmatched")
                    <=> (PresentCount(matched[k].coverage) = 1)
        /\ Len(unmatched_hints) = stats.unique

\* build_matrix finished on three providers with an 'unmatched' cluster that
\* is unique to one provider beside a cluster of two providers, which is
\* neither
C28_Witness ==
    /\ pc = "done"
    /\ NumProviders = 3
    /\ stats.unique >= 1
    /\ Len(unmatched_hints) >= 1
    /\ \E k \in 1..Len(matched) :
          /\ matched[k].agreement_level = <<"majority">>
          /\ matched[k].match_method # "unmatched"

-----------------------------------------------------------------------------
(* match_topics: exact matches and the order of the providers *)

\* provider p has exactly one Topic with the heading
OnlyOneWith(p, heading) ==
    Cardinality({k \in 1..Len(pt[p]) : pt[p][k].heading = heading}) = 1

\* a cluster that is not absorbed holds Topic i of provider p and Topic j of
\* provider q
SameCluster(p, i, q, j) ==
    \E c \in SurvivingIdx :
        clusters[c].topics[p] = i /\ clusters[c].topics[q] = j

\* C29 (as claimed): when a Topic of one provider and a Topic of another
\* have identical headings, and neither provider has another Topic with that
\* heading, match_topics returns the two Topics in the same cluster.
C29_ExactMatchKept ==
    Returned =>
        \A p, q \in 1..NumProviders :
           \A i \in 1..Len(pt[p]), j \in 1..Len(pt[q]) :
              ( /\ p # q
                /\ pt[p][i].heading = pt[q][j].heading
                /\ OnlyOneWith(p, pt[p][i].heading)
                /\ OnlyOneWith(q, pt[q][j].heading) )
              => SameCluster(p, i, q, j)

\* the Topics of the calls on permuted maps: two with similar headings and a
\* third unlike both
PermPool == {TopicPool[1], TopicPool[2], TopicPool[4]}

\* the orders in which n keys can be inserted
KeyOrders(n) ==
    {f \in [1..n -> 1..n] : \A a, b \in 1..n : a # b => f[a] # f[b]}

\* the grouping of the Topics that match_topics returned: every Topic is
\* named by its provider and its place in the provider's list
PartitionOf ==
    { { <<pt_keys[p], clusters[c].topics[p]>> : p \in PresentIn(clusters[c]) } :
         c \in SurvivingIdx }

\* the caller keeps what match_topics returned and calls it on the same
\* map with the keys inserted in another order
MatchPermuted ==
    /\ pc = "matched"
    /\ call = 1
    /\ \E f \in KeyOrders(NumProviders) :
          /\ pt_keys' = [k \in 1..NumProviders |-> pt_keys[f[k]]]
          /\ pt' = [k \in 1..NumProviders |-> pt[f[k]]]
    /\ first_in' = <<pt_keys, pt>>
    /\ first_out' = [count |-> Len(matched), partition |-> PartitionOf]
    /\ call' = 2
    /\ pc' = "match_topics"
    /\ UNCHANGED matched
    /\ UNCHANGED matchLocals
    /\ UNCHANGED buildVars
    /\ UNCHANGED <<citations, urls, report, extracted>>
    /\ UNCHANGED otherPrograms

\* a call match_topics(provider_topics) on Topics of the small pool
PermInit ==
    /\ pc = "match_topics"
    /\ results = <<>>
    /\ \E n \in 0..Len(ProviderNames), k \in 0..MaxTotal :
          \E s \in [1..k -> PermPool], g \in Splits(k, n) :
             /\ pt_keys = SubSeq(ProviderNames, 1, n)
             /\ pt = TopicLists(n, s, g)
    /\ Unassigned
    /\ Outside

PermNext ==
    \/ MatchNext
    \/ MatchPermuted

\* match_topics on a map, then on the map with its keys in another order
PermSpec == PermInit /\ [][PermNext]_vars

\* C30 (as claimed): match_topics called on the map with its providers
\* inserted in another order, each with its own Topic list, returns as many
\* clusters as before and the same grouping of the Topics.
C30_OrderIndependent ==
    (pc = "matched" /\ call = 2) =>
        /\ Len(matched) = first_out.count
        /\ PartitionOf = first_out.partition

====
